---- MODULE Spec2Model ----
(***************************************************************************)
(* Asset cache and media assembly of Story-Weaver-AI.                      *)
(*                                                                         *)
(* Modelled: the asset_cache table of server/db.ts, the POST /api/image    *)
(* and POST /api/audio handlers of server/index.ts and the PCM->WAV        *)
(* encoder pcmToWavDataUri.                                                *)
(*                                                                         *)
(* Node runs one handler at a time and better-sqlite3 is synchronous, so   *)
(* a handler is atomic from its entry to its `await` and from the          *)
(* resumption of the `await` to its response.  Every handler is therefore  *)
(* two actions: ...Request (validation, fingerprint, SELECT, issuing the   *)
(* external call) and ...Resume (the external call settles, extraction,    *)
(* normalisation, INSERT, response).                                       *)
(*                                                                         *)
(* Strings are sequences of one-character strings, so that template        *)
(* literals are concatenations and String.includes is a substring search.  *)
(* An optional JavaScript value is a set with at most one element ({} is   *)
(* undefined).                                                             *)
(***************************************************************************)
EXTENDS Integers, Sequences, FiniteSets, TLC

\* Number of requests the server receives in a behaviour.
NReq == 3
\* Number of requests in the specification with the wide collaborator responses.
NReqWide == 2
\* Number of requests in the specification of the fingerprints.
NReqKeys == 2
\* Number of requests in the specification of the coinciding keys.
NReqCollide == 2
\* Number of requests in the specification with fairness.
NReqLive == 2
\* Number of stories the client can weave or load.
NStories == 2
\* Most asset loads of the client in flight at once.
MaxLoads == 2
\* Longest PCM buffer given to the encoder.
MaxPcmLen == 2

\* The clicks on the controls of the player are accepted while the effect of
\* the player ran fewer than MaxRuns times, and its loads settle while it ran
\* at most MaxRuns times.
MaxRuns == 3

\* requests: the requests of a behaviour, by arrival index; asset_cache: the
\* rows of the table; encoding: one invocation of the WAV encoder; app: the
\* state of the App component and its unsettled promises; player: the state
\* of the StoryPlayer component.
VARIABLES requests, asset_cache, encoding, app, player

vars == <<requests, asset_cache, encoding, app, player>>

----------------------------------------------------------------------------
(* Strings of the source, as character sequences.                          *)

ImagePngPrefix == <<"d","a","t","a",":","i","m","a","g","e","/","p","n","g",";","b","a","s","e","6","4",",">>
AudioWavPrefix == <<"d","a","t","a",":","a","u","d","i","o","/","w","a","v",";","b","a","s","e","6","4",",">>
DataPrefix == <<"d","a","t","a",":">>
Base64Infix == <<";","b","a","s","e","6","4",",">>
Pcm == <<"p","c","m">>
Colon == <<":">>

\* MIME types a collaborator response declares.
MimeL16 == <<"a","u","d","i","o","/","L","1","6",";","c","o","d","e","c","=","p","c","m",";","r","a","t","e","=","2","4","0","0","0">>
MimeWav == <<"a","u","d","i","o","/","w","a","v">>
MimeMpeg == <<"a","u","d","i","o","/","m","p","e","g">>
MimePng == <<"i","m","a","g","e","/","p","n","g">>
MimeJpeg == <<"i","m","a","g","e","/","j","p","e","g">>

\* String.prototype.includes: needle occurs as a contiguous substring.
Includes(s, needle) ==
    \E i \in 0..(Len(s) - Len(needle)) :
        \A j \in 1..Len(needle) : s[i + j] = needle[j]

\* !x of an optional string: undefined or the empty string.
Falsy(x) == x = {} \/ x = {<<>>}

\* A truthy JSON value of the request body that is not a string (the number
\* 5), told from the strings by an element that is not a single character.
JsonNumber == <<"number">>

\* typeof v === 'string'
IsString(v) == \A i \in DOMAIN v : v[i] # "number"

\* The string held by a present optional value.
The(x) == CHOOSE s \in x : TRUE

\* `${x}` in a template literal: undefined is rendered as "undefined".
TemplateStr(x) ==
    IF x = {} THEN <<"u","n","d","e","f","i","n","e","d">> ELSE The(x)

----------------------------------------------------------------------------
(* crypto.createHash('md5').update(s).digest('hex'), tabulated with the    *)
(* real digests of the strings a handler of the model can be given.        *)

Md5Table ==
    { <<<<"a">>,                 "0cc175b9c0f1b6a831c399e269772661">>,
      <<<<"A">>, "7fc56270e7a70fa81a5935b72eacbe29">>,
      <<<<"a"," ">>, "99020cb24bd13238d907c65cc2b57c03">>,
      <<<<"c">>, "4a8a08f09d37b73795649038408b5f33">>,
      <<<<"a",":","c">>, "bcd423fe646039c675cf7361328ffea2">>,
      <<<<"A",":","b">>, "93035f4332de546ad042c16fe0f47605">>,
      <<<<"b">>,                 "92eb5ffee6ae2fec3ad71c777531578f">>,
      <<<<"a",":","b">>,         "d8160c9b3dc20d4e931aeb4f45262155">>,
      <<<<"b",":","c">>,         "9e7998350d9b0227243bd30372710de7">>,
      <<<<"a",":","b",":","c">>, "02cc8f08398a4f3113b554e8105ebe4c">>,
      <<<<"a",":">>,             "357503986951b80e896b8616a418a4d6">>,
      <<<<"a",":","u","n","d","e","f","i","n","e","d">>,
                                 "04b9c60c3139780b9c4528b2ce89424a">>,
      <<<<"u","n","d","e","f","i","n","e","d",":","b">>,
                                 "1b1b133ea4cd0c68d9be9f000ece1f2a">> }

\* Variant of md5hex: the input lower-cased and trimmed before hashing.
md5hexNormalized(s) ==
    LET t == IF Len(s) > 0 /\ s[Len(s)] = " "
             THEN SubSeq(s, 1, Len(s) - 1) ELSE s
        n == [i \in 1..Len(t) |-> IF t[i] = "A" THEN "a" ELSE t[i]]
    IN  (CHOOSE e \in Md5Table : e[1] = n)[2]

md5hex(s) == (CHOOSE e \in Md5Table : e[1] = s)[2]

----------------------------------------------------------------------------
(* Base64 and the WAV encoder.                                             *)

B64Chars ==
    <<"A","B","C","D","E","F","G","H","I","J","K","L","M","N","O","P",
      "Q","R","S","T","U","V","W","X","Y","Z","a","b","c","d","e","f",
      "g","h","i","j","k","l","m","n","o","p","q","r","s","t","u","v",
      "w","x","y","z","0","1","2","3","4","5","6","7","8","9","+","/">>

B64Index(c) == (CHOOSE i \in 1..64 : B64Chars[i] = c) - 1

\* Buffer.from(s, 'base64') on padded or unpadded base64 text: the sextets
\* before the first '=' are packed into bytes, a trailing partial byte dropped.
\* (.toString('binary') and charCodeAt then give back the same byte values.)
Base64Decode(s) ==
    LET n == IF \E i \in 1..Len(s) : s[i] = "="
             THEN (CHOOSE i \in 1..Len(s) :
                      s[i] = "=" /\ \A j \in 1..(i - 1) : s[j] # "=") - 1
             ELSE Len(s)
        sx(i) == B64Index(s[i + 1])
        byte(k) ==
            LET i == (8 * k) \div 6
                off == (8 * k) % 6
            IN  CASE off = 0 -> sx(i) * 4 + (sx(i + 1) \div 16)
                  [] off = 2 -> (sx(i) % 16) * 16 + (sx(i + 1) \div 4)
                  [] off = 4 -> (sx(i) % 4) * 64 + sx(i + 1)
    IN  [k \in 1..((n * 6) \div 8) |-> byte(k - 1)]

\* Buffer.prototype.toString('base64'): padded standard base64.
Base64Encode(bytes) ==
    LET n == Len(bytes)
        b(i) == IF i + 1 <= n THEN bytes[i + 1] ELSE 0
        nchars == (8 * n + 5) \div 6
        sextet(j) ==
            LET i == (6 * j) \div 8
                off == (6 * j) % 8
            IN  CASE off = 0 -> b(i) \div 4
                  [] off = 6 -> (b(i) % 4) * 16 + (b(i + 1) \div 16)
                  [] off = 4 -> (b(i) % 16) * 4 + (b(i + 1) \div 64)
                  [] off = 2 -> b(i) % 64
    IN  [j \in 1..(4 * ((n + 2) \div 3)) |->
            IF j <= nchars THEN B64Chars[sextet(j - 1) + 1] ELSE "="]

\* String.prototype.charCodeAt for the characters of the header tags.
CharCodeTable ==
    { <<"R", 82>>, <<"I", 73>>, <<"F", 70>>, <<"W", 87>>, <<"A", 65>>,
      <<"V", 86>>, <<"E", 69>>, <<"f", 102>>, <<"m", 109>>, <<"t", 116>>,
      <<" ", 32>>, <<"d", 100>>, <<"a", 97>> }

charCodeAt(c) == (CHOOSE e \in CharCodeTable : e[1] = c)[2]

\* DataView.setUint8 at a 0-based offset.
setUint8(view, offset, value) ==
    [view EXCEPT ![offset + 1] = value % 256]

\* Variant of setUint16: big-endian.
setUint16BigEndian(view, offset, value) ==
    [view EXCEPT ![offset + 2] = value % 256,
                 ![offset + 1] = (value \div 256) % 256]

\* DataView.setUint16(offset, value, true): little-endian.
setUint16(view, offset, value) ==
    [view EXCEPT ![offset + 1] = value % 256,
                 ![offset + 2] = (value \div 256) % 256]

\* A JavaScript number that is a non-negative integer, as lo + 65536 * hi
\* with lo in 0..65535, so that values of 2^31 and more can be written.
NumOf(n) == [lo |-> n % 65536, hi |-> n \div 65536]

\* Variant of NumAdd: the carry out of the low limb is dropped.
NumAddNoCarry(a, b) ==
    [lo |-> (a.lo + b.lo) % 65536, hi |-> a.hi + b.hi]

\* a + b of two such numbers.
NumAdd(a, b) ==
    [lo |-> (a.lo + b.lo) % 65536,
     hi |-> a.hi + b.hi + ((a.lo + b.lo) \div 65536)]

\* Variant of setUint32: big-endian (littleEndian argument left out).
setUint32BigEndian(view, offset, value) ==
    [view EXCEPT ![offset + 4] = value.lo % 256,
                 ![offset + 3] = value.lo \div 256,
                 ![offset + 2] = (value.hi % 65536) % 256,
                 ![offset + 1] = (value.hi % 65536) \div 256]

\* DataView.setUint32(offset, value, true): the value modulo 2^32,
\* little-endian.
setUint32(view, offset, value) ==
    [view EXCEPT ![offset + 1] = value.lo % 256,
                 ![offset + 2] = value.lo \div 256,
                 ![offset + 3] = (value.hi % 65536) % 256,
                 ![offset + 4] = (value.hi % 65536) \div 256]

RECURSIVE writeString(_, _, _)
writeString(view, offset, string) ==
    IF string = <<>> THEN view
    ELSE writeString(setUint8(view, offset, charCodeAt(Head(string))),
                     offset + 1, Tail(string))

\* The writes of pcmToWavDataUri to the DataView of a 44-byte buffer whose
\* bytes are v0.
WavHeaderFrom(v0, len, sampleRate) ==
    LET v1  == writeString(v0, 0, <<"R","I","F","F">>)
        v2  == setUint32(v1, 4, NumAdd(NumOf(36), NumOf(len)))
        v3  == writeString(v2, 8, <<"W","A","V","E">>)
        v4  == writeString(v3, 12, <<"f","m","t"," ">>)
        v5  == setUint32(v4, 16, NumOf(16))
        v6  == setUint16(v5, 20, 1)
        v7  == setUint16(v6, 22, 1)
        v8  == setUint32(v7, 24, sampleRate)
        v9  == setUint32(v8, 28, NumAdd(sampleRate, sampleRate))
        v10 == setUint16(v9, 32, 2)
        v11 == setUint16(v10, 34, 16)
        v12 == writeString(v11, 36, <<"d","a","t","a">>)
    IN  setUint32(v12, 40, NumOf(len))

\* The 44-byte header pcmToWavDataUri builds for len data bytes: new
\* ArrayBuffer(44) is zero-filled.
WavHeader(len, sampleRate) ==
    WavHeaderFrom([i \in 1..44 |-> 0], len, sampleRate)

\* Variant of pcmToWavDataUri: an empty PCM buffer gives no file.
pcmToWavDataUriNonEmptyOnly(base64Pcm, sampleRate) ==
    LET bytes == Base64Decode(base64Pcm)
        wavBytes == WavHeader(Len(bytes), sampleRate) \o bytes
    IN  IF bytes = <<>> THEN AudioWavPrefix
        ELSE AudioWavPrefix \o Base64Encode(wavBytes)

pcmToWavDataUri(base64Pcm, sampleRate) ==
    LET bytes == Base64Decode(base64Pcm)
        wavBytes == WavHeader(Len(bytes), sampleRate) \o bytes
    IN  AudioWavPrefix \o Base64Encode(wavBytes)

----------------------------------------------------------------------------
(* The WAV encoder of the client (services/gemini.ts).                     *)

\* The characters atob removes before decoding.
AsciiWhitespace == {" ", "\t", "\n", "\f", "\r"}

\* atob(s), the forgiving base64 decode of the browser: whitespace is
\* removed, one or two trailing '=' are removed when the length is a multiple
\* of four, a remaining length of 1 modulo 4 or a character outside the
\* alphabet throws, and the trailing bits that fill no byte are discarded.
\* The result is the set of the char codes of the binary string, empty when
\* atob throws.
atob(s) ==
    LET stripped == SelectSeq(s, LAMBDA c : c \notin AsciiWhitespace)
        m == Len(stripped)
        pad == IF m % 4 = 0 /\ m > 0 /\ stripped[m] = "="
               THEN IF stripped[m - 1] = "=" THEN 2 ELSE 1
               ELSE 0
        data == SubSeq(stripped, 1, m - pad)
        n == Len(data)
        valid == /\ n % 4 # 1
                 /\ \A i \in 1..n : \E k \in 1..64 : B64Chars[k] = data[i]
        group(g) == [j \in 1..4 |->
                        IF 4 * g + j <= n THEN B64Index(data[4 * g + j]) ELSE 0]
        code(k) ==
            LET q == group(k \div 3)
            IN  CASE k % 3 = 0 -> q[1] * 4 + (q[2] \div 16)
                  [] k % 3 = 1 -> (q[2] % 16) * 16 + (q[3] \div 4)
                  [] k % 3 = 2 -> (q[3] % 4) * 64 + q[4]
    IN  IF valid
        THEN { [k \in 1..(3 * (n \div 4) + (IF n % 4 = 0 THEN 0 ELSE (n % 4) - 1)) |->
                  code(k - 1)] }
        ELSE {}

\* Variant of btoa: the padding characters are left out.
btoaUnpadded(binary) ==
    LET n == Len(binary)
        chars(g) ==
            LET b0 == binary[3 * g + 1]
                b1 == IF 3 * g + 2 <= n THEN binary[3 * g + 2] ELSE 0
                b2 == IF 3 * g + 3 <= n THEN binary[3 * g + 3] ELSE 0
            IN  << B64Chars[(b0 \div 4) + 1],
                   B64Chars[(b0 % 4) * 16 + (b1 \div 16) + 1],
                   B64Chars[(b1 % 16) * 4 + (b2 \div 64) + 1],
                   B64Chars[(b2 % 64) + 1] >>
        out == [j \in 1..((8 * n + 5) \div 6) |->
                   chars((j - 1) \div 4)[((j - 1) % 4) + 1]]
    IN  IF \E i \in 1..n : binary[i] > 255 THEN {} ELSE {out}

\* btoa(binary) of a string given by its char codes: three codes give four
\* characters, the last group is padded with '='; a code above 255 throws.
\* The result is the set of the text, empty when btoa throws.
btoa(binary) ==
    LET n == Len(binary)
        chars(g) ==
            LET b0 == binary[3 * g + 1]
                b1 == IF 3 * g + 2 <= n THEN binary[3 * g + 2] ELSE 0
                b2 == IF 3 * g + 3 <= n THEN binary[3 * g + 3] ELSE 0
            IN  << B64Chars[(b0 \div 4) + 1],
                   B64Chars[(b0 % 4) * 16 + (b1 \div 16) + 1],
                   IF 3 * g + 2 <= n
                   THEN B64Chars[(b1 % 16) * 4 + (b2 \div 64) + 1] ELSE "=",
                   IF 3 * g + 3 <= n THEN B64Chars[(b2 % 64) + 1] ELSE "=" >>
        out == [j \in 1..(4 * ((n + 2) \div 3)) |->
                   chars((j - 1) \div 4)[((j - 1) % 4) + 1]]
    IN  IF \E i \in 1..n : binary[i] > 255 THEN {} ELSE {out}

\* The header the client's pcmToWavDataUri writes for len data bytes.
WavHeaderClient(len, sampleRate) ==
    LET header == [i \in 1..44 |-> 0]
        w1  == writeString(header, 0, <<"R","I","F","F">>)
        w2  == setUint32(w1, 4, NumAdd(NumOf(36), NumOf(len)))
        w3  == writeString(w2, 8, <<"W","A","V","E">>)
        w4  == writeString(w3, 12, <<"f","m","t"," ">>)
        w5  == setUint32(w4, 16, NumOf(16))
        w6  == setUint16(w5, 20, 1)
        w7  == setUint16(w6, 22, 1)
        w8  == setUint32(w7, 24, sampleRate)
        w9  == setUint32(w8, 28, NumAdd(sampleRate, sampleRate))
        w10 == setUint16(w9, 32, 2)
        w11 == setUint16(w10, 34, 16)
        w12 == writeString(w11, 36, <<"d","a","t","a">>)
    IN  setUint32(w12, 40, NumOf(len))

\* pcmToWavDataUri of services/gemini.ts: the set of the data URI it
\* returns, empty when atob or btoa throws.
pcmToWavDataUriClient(base64Pcm, sampleRate) ==
    LET binaryString == atob(base64Pcm)
    IN  IF binaryString = {} THEN {}
        ELSE LET bytes == The(binaryString)
                 len == Len(bytes)
                 wavBytes == [i \in 1..(44 + len) |->
                                 IF i <= 44 THEN WavHeaderClient(len, sampleRate)[i]
                                 ELSE bytes[i - 44]]
                 text == btoa(wavBytes)
             IN  IF text = {} THEN {}
                 ELSE { AudioWavPrefix \o The(text) }

----------------------------------------------------------------------------
(* The asset_cache table: rows in rowid order.  The statements write the   *)
(* kinds as "image" and "audio" in double quotes; no column has such a     *)
(* name, so SQLite reads them as the string literals 'image' and 'audio'.  *)

\* Variant of Select: the WHERE clause without the type condition.
SelectAnyType(cache, type, hash) ==
    LET hits == { i \in DOMAIN cache : cache[i].prompt_hash = hash }
    IN  IF hits = {} THEN {}
        ELSE { cache[CHOOSE i \in hits : \A j \in hits : i <= j] }

\* Variant of Select: single-flight, a request in flight for the key answers
\* the lookup with a placeholder row.
SelectPending(cache, type, hash) ==
    LET hits == { i \in DOMAIN cache :
                    cache[i].type = type /\ cache[i].prompt_hash = hash }
    IN  IF \E q \in DOMAIN requests :
              /\ requests[q].pc = "awaiting"
              /\ requests[q].kind = type
              /\ requests[q].hash = hash
        THEN { [id |-> 0, type |-> type, prompt_hash |-> hash, url |-> <<>>] }
        ELSE IF hits = {} THEN {}
        ELSE { cache[CHOOSE i \in hits : \A j \in hits : i <= j] }

\* Variant of Select: every handler reads with the image handler's WHERE
\* clause (type = "image").
SelectImageOnly(cache, type, hash) ==
    LET hits == { i \in DOMAIN cache :
                    cache[i].type = "image" /\ cache[i].prompt_hash = hash }
    IN  IF hits = {} THEN {}
        ELSE { cache[CHOOSE i \in hits : \A j \in hits : i <= j] }

\* SELECT url FROM asset_cache WHERE type = ? AND prompt_hash = ?  (.get():
\* the first matching row, or undefined).
Select(cache, type, hash) ==
    LET hits == { i \in DOMAIN cache :
                    cache[i].type = type /\ cache[i].prompt_hash = hash }
    IN  IF hits = {} THEN {}
        ELSE { cache[CHOOSE i \in hits : \A j \in hits : i <= j] }

\* Variant of AfterSelect: a hit rewrites the row it read (INSERT OR REPLACE
\* of the row, which gets a new rowid).
AfterSelectReplacing(cache, type, hash) ==
    [i \in DOMAIN cache |->
        IF cache[i].type = type /\ cache[i].prompt_hash = hash
        THEN [cache[i] EXCEPT !.id = Len(cache) + 1]
        ELSE cache[i]]

\* The table after the SELECT of a handler: .get() only reads.
AfterSelect(cache, type, hash) == cache

\* Variant of UniqueViolation: the column declared without UNIQUE.
UniqueViolationNoConstraint(cache, hash) == FALSE

\* prompt_hash TEXT UNIQUE NOT NULL: an INSERT of a stored prompt_hash throws.
UniqueViolation(cache, hash) ==
    \E i \in DOMAIN cache : cache[i].prompt_hash = hash

\* Variant of Insert: a cache bounded to its newest row.
InsertEvicting(cache, type, hash, url) ==
    << [id |-> Len(cache) + 1, type |-> type,
        prompt_hash |-> hash, url |-> url] >>

\* INSERT INTO asset_cache (type, prompt_hash, url) VALUES (?, ?, ?) when no
\* constraint is violated; id is AUTOINCREMENT and no row is ever deleted.
Insert(cache, type, hash, url) ==
    Append(cache, [id |-> Len(cache) + 1, type |-> type,
                   prompt_hash |-> hash, url |-> url])

----------------------------------------------------------------------------
(* Requests and collaborator responses.                                    *)

Req == 1..NReq

\* A request the server has not received yet.
NewRequest ==
    [pc |-> "new", kind |-> "none",
     body |-> [imagePrompt |-> {}, text |-> {}, audioPrompt |-> {}],
     hash |-> "", missed |-> FALSE, calls |-> 0, settled |-> "none",
     response |-> <<>>, write |-> "none",
     status |-> 0, url |-> {}, error |-> "", doneBefore |-> {}]

ImageBody(p) == [imagePrompt |-> p, text |-> {}, audioPrompt |-> {}]
AudioBody(t, a) == [imagePrompt |-> {}, text |-> t, audioPrompt |-> a]

\* A content part of a candidate, without and with inline data.
TextPart == [inlineData |-> {}]
InlinePart(mimeType, data) ==
    [inlineData |-> {[mimeType |-> mimeType, data |-> data]}]

\* Base64 payloads: bytes 00 01, bytes 01 02 03, byte FF, no bytes.
Data0001 == <<"A","A","E","=">>
Data010203 == <<"A","Q","I","D">>
DataFF == <<"/","w","=","=">>
DataEmpty == <<>>

ImageBodies ==
    { ImageBody({}), ImageBody({<<"a",":","b">>}), ImageBody({<<"b">>}) }

AudioBodies ==
    { AudioBody({}, {<<"a">>}), AudioBody({<<"b">>}, {<<"a">>}) }

\* response.candidates as a sequence of candidates, each the sequence of its
\* content.parts.
Responses ==
    { <<>>,
      << <<InlinePart(MimeL16, Data0001)>> >>,
      << <<InlinePart(MimePng, Data010203)>> >> }

ImageBodiesWide ==
    { ImageBody({}), ImageBody({<<>>}), ImageBody({<<"b">>}) }

AudioBodiesWide ==
    { AudioBody({}, {<<"a">>}), AudioBody({<<"b">>}, {}),
      AudioBody({<<>>}, {<<"a">>}), AudioBody({<<"b">>}, {<<"a">>}),
      AudioBody({<<"b",":","c">>}, {<<"a">>}) }

ResponsesWide ==
    { <<>>,
      << <<>> >>,
      << <<TextPart>> >>,
      << <<InlinePart(MimeL16, Data0001)>> >>,
      << <<InlinePart(MimeL16, DataEmpty)>> >>,
      << <<InlinePart(MimeWav, Data010203)>> >>,
      << <<InlinePart(MimeJpeg, DataFF)>> >>,
      << <<TextPart, InlinePart(MimePng, Data0001)>> >>,
      << <<InlinePart(MimePng, Data010203), InlinePart(MimeJpeg, DataFF)>> >>,
      << <<TextPart>>, <<InlinePart(MimeL16, Data0001)>> >> }

\* Bodies whose identity strings differ in case, in trailing whitespace, in
\* the scene text alone or in the narration instruction alone.
ImageBodiesKeys ==
    { ImageBody({<<"a">>}), ImageBody({<<"A">>}), ImageBody({<<"a"," ">>}) }

AudioBodiesKeys ==
    { AudioBody({<<"b">>}, {<<"a">>}), AudioBody({<<"c">>}, {<<"a">>}),
      AudioBody({<<"b">>}, {<<"A">>}) }

ResponsesKeys ==
    { <<>>,
      << <<InlinePart(MimeWav, Data0001)>> >>,
      << <<InlinePart(MimePng, Data010203)>> >> }

\* No invocation of the encoder.
IdleEncoding ==
    [pc |-> "idle", pcmBytes |-> <<>>, base64Pcm |-> <<>>,
     sampleRate |-> NumOf(0), result |-> <<>>,
     clientPc |-> "idle", clientResult |-> {}]

\* useState initial values; the token is the one of localStorage.
InitialApp ==
    [state |-> "idle", prompt |-> "", scenes |-> <<>>, error |-> FALSE,
     token |-> TRUE, isMasterpiece |-> FALSE,
     fetches |-> {}, loads |-> {}]

\* The StoryPlayer before it is rendered. currentSceneIndex and isPlaying are
\* the state of the last render and scenes its prop; pending holds the
\* state updates queued and not rendered yet; run counts the runs of the
\* effect, isMounted is the flag of the latest run (the cleanup cleared the
\* flag of every earlier one) and deps its dependency array; loads are the
\* promises of onLoadScene with their then callback; audio and speech name
\* the run whose playAudio started the audio element and the utterance
\* (0: paused, none); crashed: the last render threw.
Unmounted ==
    [mounted |-> FALSE, currentSceneIndex |-> 0, isPlaying |-> TRUE,
     scenes |-> <<>>, pending |-> <<>>, run |-> 0, isMounted |-> FALSE,
     deps |-> <<>>, loads |-> {}, audio |-> 0, speech |-> 0,
     crashed |-> FALSE]

\* A base64 text without its padding characters.
WithoutPadding(s) == SelectSeq(s, LAMBDA c : c # "=")

\* Byte values of the PCM buffers given to the encoder.
PcmByteValues == {0, 165, 255}

\* The PCM buffers of at most MaxPcmLen bytes.
PcmBuffers == UNION { [1..k -> PcmByteValues] : k \in 0..MaxPcmLen }

\* Sample rates over the u32 range: 0, 1, 24000, 44100, 65535, 65536,
\* 2^31 - 1, 2^31, 2^32 - 1.
SampleRates ==
    { NumOf(0), NumOf(1), NumOf(24000), NumOf(44100), NumOf(65535),
      NumOf(65536), NumOf(2147483647), [lo |-> 0, hi |-> 32768],
      [lo |-> 65535, hi |-> 65535] }

\* Requests that have been answered.
Done == { q \in Req : requests[q].pc = "done" }

\* Requests arrive in index order.
Arrives(r) ==
    /\ requests[r].pc = "new"
    /\ \A q \in Req : q < r => requests[q].pc # "new"

\* res.status(status).json(...) and the handler returns.
Respond(req, status, url, error) ==
    [req EXCEPT !.pc = "done", !.status = status, !.url = url, !.error = error]

----------------------------------------------------------------------------
(* POST /api/image                                                         *)

\* if (!imagePrompt) return res.status(400)
ImageInvalid(body) == Falsy(body.imagePrompt)

\* crypto.createHash('md5').update(imagePrompt) throws a TypeError when its
\* argument is not a string; the call stands before the try block.
HashUpdateThrows(v) == ~IsString(v)

\* What becomes of a request whose async handler rejects outside its try
\* block: the router answers 500 where it forwards rejected handlers to the
\* error handler (Express 5), and nothing answers where it does not
\* (Express 4).
RejectedHandlerOutcomes == {"answered500", "unanswered"}

\* Entry of the handler up to `await ai.models.generateContent`.
ImageRequest(r, bodies) ==
    /\ Arrives(r)
    /\ \E body \in bodies :
        LET req == [requests[r] EXCEPT !.kind = "image", !.body = body,
                                       !.doneBefore = Done]
            imagePrompt == body.imagePrompt
        IN  IF ImageInvalid(body)
            THEN /\ requests' = [requests EXCEPT
                         ![r] = Respond(req, 400, {}, "imagePrompt is required")]
                 /\ UNCHANGED asset_cache
            ELSE IF HashUpdateThrows(The(imagePrompt))
            THEN /\ \E outcome \in RejectedHandlerOutcomes :
                        requests' = [requests EXCEPT ![r] =
                            IF outcome = "unanswered"
                            THEN [req EXCEPT !.pc = "unanswered"]
                            ELSE Respond(req, 500, {},
                                         "The \"data\" argument must be of type string")]
                 /\ UNCHANGED asset_cache
            ELSE
              LET hash == md5hex(The(imagePrompt))
                  cached == Select(asset_cache, "image", hash)
              IN  /\ asset_cache' = AfterSelect(asset_cache, "image", hash)
                  /\ IF cached # {}
                     THEN requests' = [requests EXCEPT
                          ![r] = Respond([req EXCEPT !.hash = hash], 200,
                                         {The(cached).url}, "")]
                     ELSE requests' = [requests EXCEPT
                          ![r] = [req EXCEPT !.hash = hash, !.missed = TRUE,
                                             !.calls = @ + 1,
                                             !.pc = "awaiting"]]
    /\ UNCHANGED <<encoding, app, player>>

\* Variant of FirstCandidateParts: the parts of the last candidate.
LastCandidateParts(response) ==
    IF response = <<>> THEN <<>> ELSE response[Len(response)]

\* The parts the image loop iterates: response.candidates?.[0]?.content?.parts || [].
FirstCandidateParts(response) ==
    IF response = <<>> THEN <<>> ELSE response[1]

\* Variant of FirstInlinePart: an empty image stands in when no part has
\* inlineData.
FirstInlinePartOrPlaceholder(parts) ==
    LET idx == { i \in DOMAIN parts : parts[i].inlineData # {} }
    IN  IF idx = {} THEN { InlinePart(MimePng, <<>>) }
        ELSE { parts[CHOOSE i \in idx : \A j \in idx : i <= j] }

\* The first part of the loop with inlineData, if any.
FirstInlinePart(parts) ==
    LET idx == { i \in DOMAIN parts : parts[i].inlineData # {} }
    IN  IF idx = {} THEN {}
        ELSE { parts[CHOOSE i \in idx : \A j \in idx : i <= j] }

\* `data:image/png;base64,${part.inlineData.data}`
ImageUrl(part) == ImagePngPrefix \o The(part.inlineData).data

\* The external call settles and the handler runs to its response.
ImageResume(r, responses) ==
    /\ requests[r].pc = "awaiting"
    /\ requests[r].kind = "image"
    /\ \/ /\ requests' = [requests EXCEPT
                ![r] = Respond([requests[r] EXCEPT !.settled = "rejected"],
                               500, {}, "generateContent failed")]
          /\ UNCHANGED asset_cache
       \/ \E response \in responses :
            LET req == [requests[r] EXCEPT !.settled = "fulfilled",
                                           !.response = response]
                found == FirstInlinePart(FirstCandidateParts(response))
            IN  IF found # {}
                THEN LET imageUrl == ImageUrl(The(found))
                     IN  IF UniqueViolation(asset_cache, req.hash)
                         THEN /\ requests' = [requests EXCEPT
                                    ![r] = Respond([req EXCEPT !.write = "conflict"],
                                        500, {},
                                        "UNIQUE constraint failed: asset_cache.prompt_hash")]
                              /\ UNCHANGED asset_cache
                         ELSE /\ asset_cache' =
                                    Insert(asset_cache, "image", req.hash, imageUrl)
                              /\ requests' = [requests EXCEPT
                                    ![r] = Respond([req EXCEPT !.write = "ok"],
                                                   200, {imageUrl}, "")]
                ELSE /\ requests' = [requests EXCEPT
                            ![r] = Respond(req, 404, {}, "No image generated")]
                     /\ UNCHANGED asset_cache
    /\ UNCHANGED <<encoding, app, player>>

----------------------------------------------------------------------------
(* POST /api/audio                                                         *)

\* Variant of AudioInvalid: && for ||.
AudioInvalidBoth(body) == Falsy(body.text) /\ Falsy(body.audioPrompt)

\* if (!text || !audioPrompt) return res.status(400)
AudioInvalid(body) == Falsy(body.text) \/ Falsy(body.audioPrompt)

\* Variant of ContentToHash: the scene text alone.
ContentToHashTextOnly(audioPrompt, text) == TemplateStr(text)

\* `${audioPrompt}:${text}`
ContentToHash(audioPrompt, text) ==
    TemplateStr(audioPrompt) \o Colon \o TemplateStr(text)

AudioRequest(r, bodies) ==
    /\ Arrives(r)
    /\ \E body \in bodies :
        LET req == [requests[r] EXCEPT !.kind = "audio", !.body = body,
                                       !.doneBefore = Done]
        IN  IF AudioInvalid(body)
            THEN /\ requests' = [requests EXCEPT
                         ![r] = Respond(req, 400, {},
                                        "text and audioPrompt are required")]
                 /\ UNCHANGED asset_cache
            ELSE
              LET hash == md5hex(ContentToHash(body.audioPrompt, body.text))
                  cached == Select(asset_cache, "audio", hash)
              IN  /\ asset_cache' = AfterSelect(asset_cache, "audio", hash)
                  /\ IF cached # {}
                     THEN requests' = [requests EXCEPT
                          ![r] = Respond([req EXCEPT !.hash = hash], 200,
                                         {The(cached).url}, "")]
                     ELSE requests' = [requests EXCEPT
                          ![r] = [req EXCEPT !.hash = hash, !.missed = TRUE,
                                             !.calls = @ + 1,
                                             !.pc = "awaiting"]]
    /\ UNCHANGED <<encoding, app, player>>

\* Variant of FirstPartInline: the parts are searched as the image loop does.
AnyPartInline(response) ==
    IF response = <<>> THEN {}
    ELSE LET idx == { i \in DOMAIN response[1] : response[1][i].inlineData # {} }
         IN  IF idx = {} THEN {}
             ELSE response[1][CHOOSE i \in idx : \A j \in idx : i <= j].inlineData

\* response.candidates?.[0]?.content?.parts?.[0] when it has inlineData.
FirstPartInline(response) ==
    IF response = <<>> THEN {}
    ELSE IF response[1] = <<>> THEN {}
    ELSE response[1][1].inlineData

\* Variant of FinalAudio: the PCM payload is never converted.
FinalAudioPassThrough(mimeType, base64Data) ==
    DataPrefix \o mimeType \o Base64Infix \o base64Data

\* finalAudio of the audio handler.
FinalAudio(mimeType, base64Data) ==
    IF Includes(mimeType, Pcm)
    THEN pcmToWavDataUri(base64Data, NumOf(24000))
    ELSE DataPrefix \o mimeType \o Base64Infix \o base64Data

AudioResume(r, responses) ==
    /\ requests[r].pc = "awaiting"
    /\ requests[r].kind = "audio"
    /\ \/ /\ requests' = [requests EXCEPT
                ![r] = Respond([requests[r] EXCEPT !.settled = "rejected"],
                               500, {}, "generateContent failed")]
          /\ UNCHANGED asset_cache
       \/ \E response \in responses :
            LET req == [requests[r] EXCEPT !.settled = "fulfilled",
                                           !.response = response]
                inlineData == FirstPartInline(response)
            IN  IF inlineData # {}
                THEN LET finalAudio == FinalAudio(The(inlineData).mimeType,
                                                  The(inlineData).data)
                     IN  IF UniqueViolation(asset_cache, req.hash)
                         THEN /\ requests' = [requests EXCEPT
                                    ![r] = Respond([req EXCEPT !.write = "conflict"],
                                        500, {},
                                        "UNIQUE constraint failed: asset_cache.prompt_hash")]
                              /\ UNCHANGED asset_cache
                         ELSE /\ asset_cache' =
                                    Insert(asset_cache, "audio", req.hash, finalAudio)
                              /\ requests' = [requests EXCEPT
                                    ![r] = Respond([req EXCEPT !.write = "ok"],
                                                   200, {finalAudio}, "")]
                ELSE /\ requests' = [requests EXCEPT
                            ![r] = Respond(req, 404, {}, "No audio generated")]
                     /\ UNCHANGED asset_cache
    /\ UNCHANGED <<encoding, app, player>>

----------------------------------------------------------------------------
(* Specifications.                                                         *)

\* The table is created empty (CREATE TABLE IF NOT EXISTS) and no request
\* has arrived.
Init ==
    /\ requests = [r \in Req |-> NewRequest]
    /\ asset_cache = <<>>
    /\ encoding = IdleEncoding
    /\ app = InitialApp
    /\ player = Unmounted

Next ==
    \E r \in Req :
        \/ ImageRequest(r, ImageBodies)
        \/ ImageResume(r, Responses)
        \/ AudioRequest(r, AudioBodies)
        \/ AudioResume(r, Responses)

Spec == Init /\ [][Next]_vars

\* Few requests, every shape of collaborator response and request body.
ReqWide == 1..NReqWide

InitWide ==
    /\ requests = [r \in Req |-> NewRequest]
    /\ asset_cache = <<>>
    /\ encoding = IdleEncoding
    /\ app = InitialApp
    /\ player = Unmounted

NextWide ==
    \E r \in ReqWide :
        \/ ImageRequest(r, ImageBodiesWide)
        \/ ImageResume(r, ResponsesWide)
        \/ AudioRequest(r, AudioBodiesWide)
        \/ AudioResume(r, ResponsesWide)

SpecWide == InitWide /\ [][NextWide]_vars

\* Requests whose identity strings differ by one character or one component.
ReqKeys == 1..NReqKeys

InitKeys ==
    /\ requests = [r \in Req |-> NewRequest]
    /\ asset_cache = <<>>
    /\ encoding = IdleEncoding
    /\ app = InitialApp
    /\ player = Unmounted

NextKeys ==
    \E r \in ReqKeys :
        \/ ImageRequest(r, ImageBodiesKeys)
        \/ ImageResume(r, ResponsesKeys)
        \/ AudioRequest(r, AudioBodiesKeys)
        \/ AudioResume(r, ResponsesKeys)

SpecKeys == InitKeys /\ [][NextKeys]_vars

\* Bodies whose identity strings coincide: the audio pairs ("a:b", "c") and
\* ("a", "b:c") give "a:b:c", and the image prompt "a:b" is the identity
\* string of the audio pair ("a", "b").
ImageBodiesCollide == { ImageBody({<<"a",":","b">>}) }

AudioBodiesCollide ==
    { AudioBody({<<"c">>}, {<<"a",":","b">>}),
      AudioBody({<<"b",":","c">>}, {<<"a">>}),
      AudioBody({<<"b">>}, {<<"a">>}) }

ResponsesCollide ==
    { << <<InlinePart(MimeWav, Data0001)>> >>,
      << <<InlinePart(MimePng, Data010203)>> >>,
      << <<InlinePart(MimeMpeg, DataFF)>> >> }

ReqCollide == 1..NReqCollide

InitCollide ==
    /\ requests = [r \in Req |-> NewRequest]
    /\ asset_cache = <<>>
    /\ encoding = IdleEncoding
    /\ app = InitialApp
    /\ player = Unmounted

NextCollide ==
    \E r \in ReqCollide :
        \/ ImageRequest(r, ImageBodiesCollide)
        \/ ImageResume(r, ResponsesCollide)
        \/ AudioRequest(r, AudioBodiesCollide)
        \/ AudioResume(r, ResponsesCollide)

SpecCollide == InitCollide /\ [][NextCollide]_vars

\* Bodies and responses of the requests followed to their response: a
\* missing prompt, a string prompt and a prompt that is a JSON number.
ImageBodiesLive ==
    { ImageBody({}), ImageBody({<<"b">>}), ImageBody({JsonNumber}) }

AudioBodiesLive ==
    { AudioBody({}, {<<"a">>}), AudioBody({<<"b">>}, {<<"a">>}) }

ResponsesLive == { <<>>, << <<InlinePart(MimePng, Data010203)>> >> }

ReqLive == 1..NReqLive

InitLive ==
    /\ requests = [r \in Req |-> NewRequest]
    /\ asset_cache = <<>>
    /\ encoding = IdleEncoding
    /\ app = InitialApp
    /\ player = Unmounted

NextLive ==
    \E r \in ReqLive :
        \/ ImageRequest(r, ImageBodiesLive)
        \/ ImageResume(r, ResponsesLive)
        \/ AudioRequest(r, AudioBodiesLive)
        \/ AudioResume(r, ResponsesLive)

\* Every external call that was issued settles: the promise of
\* generateContent is fulfilled or rejected and the handler resumes.
CallsSettle ==
    \A r \in ReqLive :
        /\ WF_vars(ImageResume(r, ResponsesLive))
        /\ WF_vars(AudioResume(r, ResponsesLive))

SpecLive == InitLive /\ [][NextLive]_vars /\ CallsSettle

\* pcmToWavDataUri(base64Pcm, sampleRate) is called and returns.
Encode ==
    /\ encoding.pc = "called"
    /\ encoding' = [encoding EXCEPT
            !.pc = "returned",
            !.result = pcmToWavDataUri(encoding.base64Pcm, encoding.sampleRate)]
    /\ UNCHANGED <<requests, asset_cache, app, player>>

\* pcmToWavDataUri of the client is called with the same arguments and
\* returns or throws.
EncodeClient ==
    /\ encoding.clientPc = "called"
    /\ LET out == pcmToWavDataUriClient(encoding.base64Pcm, encoding.sampleRate)
       IN  encoding' = [encoding EXCEPT
               !.clientPc = IF out = {} THEN "threw" ELSE "returned",
               !.clientResult = out]
    /\ UNCHANGED <<requests, asset_cache, app, player>>

\* The encoders alone: a call with the base64 text of a PCM buffer, padded or
\* not, and a sample rate.
InitWav ==
    /\ requests = [r \in Req |-> NewRequest]
    /\ asset_cache = <<>>
    /\ \E bytes \in PcmBuffers, rate \in SampleRates :
        \E text \in {Base64Encode(bytes), WithoutPadding(Base64Encode(bytes))} :
            encoding = [pc |-> "called", pcmBytes |-> bytes,
                        base64Pcm |-> text,
                        sampleRate |-> rate, result |-> <<>>,
                        clientPc |-> "called", clientResult |-> {}]
    /\ app = InitialApp
    /\ player = Unmounted

NextWav == Encode \/ EncodeClient

SpecWav == InitWav /\ [][NextWav]_vars

----------------------------------------------------------------------------
(* The App component (App.tsx).                                            *)

Stories == 1..NStories

\* The scenes a story has: two for the odd stories, one for the even ones.
SceneCount(s) == 1 + (s % 2)

\* A scene of a story as the story structure gives it: no asset resolved.
\* pos is the index of the scene in its story, counted from 0.
NewScene(s, k) ==
    [story |-> s, pos |-> k, imageUrl |-> FALSE, audioUrl |-> FALSE]

\* The scene list of a story.
StoryScenes(s) == [i \in 1..SceneCount(s) |-> NewScene(s, i - 1)]

\* An element of a scene array that was never assigned.
EmptySlot == [story |-> 0, pos |-> 0, imageUrl |-> FALSE, audioUrl |-> FALSE]

\* The StoryPlayer is rendered.
PlayerRendered == app.token /\ app.state = "playing"

\* onChange of the prompt field and the suggestion buttons.
SetPrompt ==
    /\ app.token /\ app.state = "idle"
    /\ app.prompt = ""
    /\ app' = [app EXCEPT !.prompt = "p"]
    /\ UNCHANGED <<requests, asset_cache, encoding, player>>

\* handleWeave up to `await generateStoryStructure`.
HandleWeave ==
    /\ app.token /\ app.state = "idle"
    /\ app.prompt # ""
    /\ app.fetches = {}
    /\ app' = [app EXCEPT !.state = "weaving", !.error = FALSE,
                          !.scenes = <<>>,
                          !.fetches = @ \cup {[op |-> "weave"]}]
    /\ UNCHANGED <<requests, asset_cache, encoding, player>>

\* generateStoryStructure settles: a story structure, or [] when the fetch
\* failed or the collaborator returned no scene; handleWeave runs to its end.
WeaveSettles ==
    /\ [op |-> "weave"] \in app.fetches
    /\ \E structure \in {<<>>} \cup {StoryScenes(s) : s \in Stories} :
          IF Len(structure) = 0
          THEN app' = [app EXCEPT !.error = TRUE, !.state = "idle",
                                  !.fetches = @ \ {[op |-> "weave"]}]
          ELSE app' = [app EXCEPT !.scenes = structure, !.state = "playing",
                                  !.fetches = @ \ {[op |-> "weave"]}]
    /\ UNCHANGED <<requests, asset_cache, encoding, player>>

\* handleLoadStory up to `await fetchStoryById`.
HandleLoadStory ==
    /\ app.token
    /\ app.fetches = {}
    /\ app' = [app EXCEPT !.state = "weaving",
                          !.fetches = @ \cup {[op |-> "loadStory"]}]
    /\ UNCHANGED <<requests, asset_cache, encoding, player>>

\* fetchStoryById settles: the scenes of the story, or [] when the fetch
\* failed (fetchStoryById catches and returns []); handleLoadStory runs to
\* its end.
LoadStorySettles ==
    /\ [op |-> "loadStory"] \in app.fetches
    /\ \E storyScenes \in {<<>>} \cup {StoryScenes(s) : s \in Stories} :
          app' = [app EXCEPT !.scenes = storyScenes, !.state = "playing",
                             !.fetches = @ \ {[op |-> "loadStory"]}]
    /\ UNCHANGED <<requests, asset_cache, encoding, player>>

\* reset()
ResetApp(a) ==
    [a EXCEPT !.state = "idle", !.prompt = "", !.scenes = <<>>,
              !.error = FALSE]

\* The reset buttons of the playing and the finished view.
Reset ==
    /\ app.token /\ app.state \in {"playing", "finished"}
    /\ app' = ResetApp(app)
    /\ UNCHANGED <<requests, asset_cache, encoding, player>>

\* handleLogout
HandleLogout ==
    /\ app.token
    /\ app' = ResetApp([app EXCEPT !.token = FALSE])
    /\ UNCHANGED <<requests, asset_cache, encoding, player>>

\* handleAuth
HandleAuth ==
    /\ ~app.token
    /\ app' = [app EXCEPT !.token = TRUE]
    /\ UNCHANGED <<requests, asset_cache, encoding, player>>

\* onComplete of the player: setState('finished').
OnComplete ==
    /\ PlayerRendered
    /\ app.scenes # <<>>
    /\ app' = [app EXCEPT !.state = "finished"]
    /\ UNCHANGED <<requests, asset_cache, encoding, player>>

\* A scene lacks an asset.
Incomplete(scene) == ~scene.imageUrl \/ ~scene.audioUrl

\* handleLoadScene(index), called by the effect of the rendered player for
\* its current scene, up to `await generateSceneAssets`.
HandleLoadScene ==
    /\ PlayerRendered
    /\ Cardinality(app.loads) < MaxLoads
    /\ \E index \in 0..(Len(app.scenes) - 1) :
          LET scene == app.scenes[index + 1]
          IN  /\ scene # EmptySlot
              /\ Incomplete(scene)
              /\ [index |-> index, scene |-> scene] \notin app.loads
              /\ app' = [app EXCEPT
                     !.loads = @ \cup {[index |-> index, scene |-> scene]}]
    /\ UNCHANGED <<requests, asset_cache, encoding, player>>

\* newScenes = [...prev]; newScenes[index] = updatedScene
AssignScene(prev, index, updatedScene) ==
    [i \in 1..(IF index + 1 > Len(prev) THEN index + 1 ELSE Len(prev)) |->
        IF i = index + 1 THEN updatedScene
        ELSE IF i <= Len(prev) THEN prev[i] ELSE EmptySlot]

\* generateSceneAssets settles (it never rejects: each asset that failed is
\* undefined) and handleLoadScene runs setScenes.
LoadSceneSettles ==
    /\ \E load \in app.loads, imageUrl \in BOOLEAN, audioUrl \in BOOLEAN :
          LET updatedScene == [load.scene EXCEPT !.imageUrl = imageUrl,
                                                 !.audioUrl = audioUrl]
          IN  app' = [app EXCEPT
                  !.scenes = AssignScene(@, load.index, updatedScene),
                  !.loads = @ \ {load}]
    /\ UNCHANGED <<requests, asset_cache, encoding, player>>

InitApp ==
    /\ requests = [r \in Req |-> NewRequest]
    /\ asset_cache = <<>>
    /\ encoding = IdleEncoding
    /\ app = InitialApp
    /\ player = Unmounted

NextApp ==
    \/ SetPrompt
    \/ HandleWeave
    \/ WeaveSettles
    \/ HandleLoadStory
    \/ LoadStorySettles
    \/ Reset
    \/ HandleLogout
    \/ HandleAuth
    \/ OnComplete
    \/ HandleLoadScene
    \/ LoadSceneSettles

SpecApp == InitApp /\ [][NextApp]_vars

----------------------------------------------------------------------------
(* The StoryPlayer component (StoryPlayer.tsx).                            *)

\* currentScene = scenes[currentSceneIndex]
CurrentScene(p) == p.scenes[p.currentSceneIndex + 1]

\* The dependency array of the effect.
Deps(p) == <<p.currentSceneIndex, p.isPlaying, CurrentScene(p).audioUrl>>

\* currentScene.audioUrl.startsWith('tts://'): generateSceneAssets gives a
\* tts:// reference unless the story is woven in masterpiece mode.
IsTts(scene) == ~app.isMasterpiece

\* The isMounted flag of an effect run, with the check left out.
IsMountedUnchecked(p, run) == TRUE

\* The isMounted flag of an effect run: set by the run, cleared by its
\* cleanup, which runs before the next run and at unmount.
IsMounted(p, run) == run = p.run /\ p.isMounted

\* playAudio() of an effect run, with the isPlaying and currentScene of the
\* render the run belongs to.
playAudio(p, run, isPlaying, scene) ==
    IF isPlaying /\ scene.audioUrl
    THEN IF IsTts(scene)
         THEN [p EXCEPT !.speech = run]
         ELSE [p EXCEPT !.audio = run]
    ELSE [p EXCEPT !.audio = 0, !.speech = 0]

\* One run of the effect after a render: it asks for the assets of an
\* incomplete scene and plays when they arrive, or plays at once.
Effect(p) ==
    LET run == p.run + 1
        scene == CurrentScene(p)
        q == [p EXCEPT !.run = run, !.isMounted = TRUE, !.deps = Deps(p)]
    IN  IF Incomplete(scene)
        THEN [q EXCEPT !.loads = @ \cup
                 {[run |-> run, index |-> p.currentSceneIndex,
                   scene |-> scene, isPlaying |-> p.isPlaying,
                   then |-> "pending"]}]
        ELSE playAudio(q, run, p.isPlaying, scene)

\* The cleanup of the latest effect run.
Cleanup(p) == [p EXCEPT !.isMounted = FALSE, !.audio = 0]

\* The index is one of the scene list.
InRange(p) == p.currentSceneIndex \in 0..(Len(p.scenes) - 1)

\* The end of a render of the mounted player: reading currentScene.audioUrl
\* throws when the index is outside the list; otherwise the effect runs
\* again, after its cleanup, when a dependency changed.
Commit(p) ==
    IF ~InRange(p) THEN [Cleanup(p) EXCEPT !.crashed = TRUE]
    ELSE IF Deps(p) # p.deps THEN Effect(Cleanup(p))
    ELSE p

\* The queued updates applied in order: prev => prev + 1 of
\* handleAudioEnded, and its setIsPlaying(false).
RECURSIVE ApplyPending(_)
ApplyPending(p) ==
    IF p.pending = <<>> THEN p
    ELSE LET q == [p EXCEPT !.pending = Tail(@)]
         IN  ApplyPending(
                 IF Head(p.pending) = "advance"
                 THEN [q EXCEPT !.currentSceneIndex = @ + 1]
                 ELSE [q EXCEPT !.isPlaying = FALSE])

\* The scheduler renders the updates queued outside a click: the App gives
\* its scene list, or no longer renders the player; the player mounts with
\* its first effect run, unmounts with the cleanup of the last one, or
\* renders again.
Render ==
    /\ ~player.crashed
    /\ IF ~player.mounted
       THEN /\ PlayerRendered
            /\ player' = Commit([player EXCEPT
                   !.mounted = TRUE, !.currentSceneIndex = 0,
                   !.isPlaying = TRUE, !.scenes = app.scenes,
                   !.pending = <<>>, !.deps = <<>>])
       ELSE IF ~PlayerRendered
       THEN player' = [Cleanup(player) EXCEPT !.mounted = FALSE,
                                              !.pending = <<>>]
       ELSE /\ player.pending # <<>> \/ player.scenes # app.scenes
            /\ player' = Commit(ApplyPending(
                   [player EXCEPT !.scenes = app.scenes]))
    /\ UNCHANGED <<requests, asset_cache, encoding, app>>

\* handleAudioEnded with the index and the scenes of the last render: the
\* updates it makes wait for the scheduler.
HandleAudioEnded(p) ==
    IF p.currentSceneIndex < Len(p.scenes) - 1
    THEN [p EXCEPT !.pending = Append(@, "advance")]
    ELSE [p EXCEPT !.pending = Append(@, "stop")]

\* onComplete() is called by handleAudioEnded.
CallsOnComplete(p) == ~(p.currentSceneIndex < Len(p.scenes) - 1)

\* The audio element played its source to the end: onEnded.
AudioEnded ==
    /\ player.mounted /\ ~player.crashed
    /\ player.audio # 0
    /\ player.pending = <<>>
    /\ player' = HandleAudioEnded([player EXCEPT !.audio = 0])
    /\ app' = IF CallsOnComplete(player)
              THEN [app EXCEPT !.state = "finished"] ELSE app
    /\ UNCHANGED <<requests, asset_cache, encoding>>

\* The utterance was spoken to the end: utterance.onend of the run that
\* spoke it.
SpeechEnded ==
    /\ ~player.crashed
    /\ player.speech # 0
    /\ player.pending = <<>>
    /\ IF IsMounted(player, player.speech)
       THEN /\ player' = HandleAudioEnded([player EXCEPT !.speech = 0])
            /\ app' = IF CallsOnComplete(player)
                      THEN [app EXCEPT !.state = "finished"] ELSE app
       ELSE /\ player' = [player EXCEPT !.speech = 0]
            /\ app' = app
    /\ UNCHANGED <<requests, asset_cache, encoding>>

\* A click is rendered before the handler returns; the updates queued
\* before it are rendered with it, or left to the scheduler.
ClickRender(p) ==
    {Commit(p), Commit(ApplyPending(p))}

\* nextScene
NextScene ==
    /\ player.mounted /\ ~player.crashed
    /\ player.run < MaxRuns
    /\ player.currentSceneIndex < Len(player.scenes) - 1
    /\ player' \in ClickRender(
           [player EXCEPT !.currentSceneIndex = @ + 1])
    /\ UNCHANGED <<requests, asset_cache, encoding, app>>

\* prevScene
PrevScene ==
    /\ player.mounted /\ ~player.crashed
    /\ player.run < MaxRuns
    /\ player.currentSceneIndex > 0
    /\ player' \in ClickRender(
           [player EXCEPT !.currentSceneIndex = @ - 1])
    /\ UNCHANGED <<requests, asset_cache, encoding, app>>

\* togglePlay: setIsPlaying(!isPlaying) comes after a queued
\* setIsPlaying(false) and replaces it.
TogglePlay ==
    /\ player.mounted /\ ~player.crashed
    /\ player.run < MaxRuns
    /\ player' \in ClickRender(
           [player EXCEPT
               !.isPlaying = ~player.isPlaying,
               !.pending = SelectSeq(@, LAMBDA u : u # "stop")])
    /\ UNCHANGED <<requests, asset_cache, encoding, app>>

\* generateSceneAssets of a load of the player settles: handleLoadScene
\* runs setScenes on the current list, its promise resolves and the then
\* callback of the effect run plays when the run is still mounted. The
\* browser voice never fails; an asset of the server may.
SceneLoadSettles ==
    /\ \E load \in player.loads, imageUrl \in BOOLEAN,
          audioUrl \in (IF app.isMasterpiece THEN BOOLEAN ELSE {TRUE}) :
          LET updatedScene == [load.scene EXCEPT !.imageUrl = imageUrl,
                                                 !.audioUrl = audioUrl]
              played == IsMounted(player, load.run)
              settled == [load EXCEPT
                  !.then = IF played THEN "played" ELSE "skipped"]
              p == [player EXCEPT !.loads = (@ \ {load}) \cup {settled}]
          IN  /\ load.then = "pending"
              /\ player.run <= MaxRuns
              /\ app' = [app EXCEPT
                     !.scenes = AssignScene(@, load.index, updatedScene)]
              /\ player' = IF played
                           THEN playAudio(p, load.run, load.isPlaying,
                                          load.scene)
                           ELSE p
    /\ UNCHANGED <<requests, asset_cache, encoding>>

\* A story is woven or loaded and the App is about to render the player.
InitPlayer ==
    /\ requests = [r \in Req |-> NewRequest]
    /\ asset_cache = <<>>
    /\ encoding = IdleEncoding
    /\ \E s \in Stories, isMasterpiece \in BOOLEAN :
          app = [InitialApp EXCEPT !.state = "playing",
                                   !.scenes = StoryScenes(s),
                                   !.isMasterpiece = isMasterpiece]
    /\ player = Unmounted

NextPlayer ==
    \/ Render
    \/ AudioEnded
    \/ SpeechEnded
    \/ NextScene
    \/ PrevScene
    \/ TogglePlay
    \/ SceneLoadSettles
    \/ Reset

SpecPlayer == InitPlayer /\ [][NextPlayer]_vars

----------------------------------------------------------------------------
(* Scene assets: handleLoadScene (App.tsx) and generateSceneAssets         *)
(* (services/gemini.ts) with the fields of a scene and the calls made.     *)

\* A Scene: text, imagePrompt and audioPrompt are strings, imageUrl and
\* audioUrl are optional.
SceneOf(text, imagePrompt, audioPrompt) ==
    [text |-> text, imagePrompt |-> imagePrompt, audioPrompt |-> audioPrompt,
     imageUrl |-> {}, audioUrl |-> {}]

\* A story structure of two scenes, no asset resolved.
StoryStructure ==
    << SceneOf(<<"a">>, <<"p">>, <<"v">>),
       SceneOf(<<"b">>, <<"q">>, <<"v">>) >>

\* The value of an optional string in a condition: undefined and "" are
\* falsy.
Truthy(url) == url # {} /\ The(url) # <<>>

\* scene.imageUrl && scene.audioUrl
HasBothAssets(scene) == Truthy(scene.imageUrl) /\ Truthy(scene.audioUrl)

\* browserTTS(text): `tts://${text}`
browserTTS(text) == <<"t", "t", "s", ":", "/", "/">> \o text

\* The references the image and the audio endpoint answer with.
ImageUrlAnswer == <<"d", "a", "t", "a", ":", "i">>

AudioUrlAnswer == <<"d", "a", "t", "a", ":", "a">>

\* The calls of generateSceneAssets, with the audio endpoint called in
\* either mode.
AssetRequestsBothModes(scene, isMasterpiece, id) ==
    { [op |-> "image", imagePrompt |-> scene.imagePrompt, call |-> id],
      [op |-> "audio", text |-> scene.text,
       audioPrompt |-> scene.audioPrompt, call |-> id] }

\* The requests one call of generateSceneAssets makes (call tells the
\* requests of two calls apart): generateSceneImage(scene.imagePrompt), and
\* generateSceneAudio(scene.text, scene.audioPrompt) in masterpiece mode.
AssetRequests(scene, isMasterpiece, id) ==
    { [op |-> "image", imagePrompt |-> scene.imagePrompt, call |-> id] }
    \cup (IF isMasterpiece
          THEN { [op |-> "audio", text |-> scene.text,
                  audioPrompt |-> scene.audioPrompt, call |-> id] }
          ELSE {})

\* What the audio half of Promise.all can resolve to: the answer of the
\* endpoint or undefined in masterpiece mode, the browser voice otherwise.
AudioResults(scene, isMasterpiece) ==
    IF isMasterpiece THEN {{}, {AudioUrlAnswer}}
    ELSE {{browserTTS(scene.text)}}

\* What generateSceneImage can resolve to: the answer or undefined.
ImageResults == {{}, {ImageUrlAnswer}}

\* { ...scene, imageUrl, audioUrl }
WithAssets(scene, imageUrl, audioUrl) ==
    [scene EXCEPT !.imageUrl = imageUrl, !.audioUrl = audioUrl]

\* The calls of handleLoadScene that wait for generateSceneAssets.
Awaiting == { load \in app.loads : load.pc = "awaiting" }

\* A number no waiting call has.
FreeCall == CHOOSE id \in 1..MaxLoads : \A load \in Awaiting : load.call # id

\* handleLoadScene(index) up to its return for a scene that has both assets,
\* and up to the await of Promise.all otherwise. The promise it returns is
\* kept in loads; call is 0 for a call that made no request.
LoadSceneAssets ==
    /\ PlayerRendered
    /\ Cardinality(Awaiting) < MaxLoads
    /\ \E index \in 0..(Len(app.scenes) - 1) :
          LET scene == app.scenes[index + 1]
          IN  IF HasBothAssets(scene)
              THEN /\ [index |-> index, scene |-> scene, call |-> 0,
                        pc |-> "returned"] \notin app.loads
                   /\ app' = [app EXCEPT !.loads = @ \cup
                          {[index |-> index, scene |-> scene, call |-> 0,
                            pc |-> "returned"]}]
              ELSE app' = [app EXCEPT
                       !.loads = @ \cup
                           {[index |-> index, scene |-> scene,
                             call |-> FreeCall, pc |-> "awaiting"]},
                       !.fetches = @ \cup
                           AssetRequests(scene, app.isMasterpiece, FreeCall)]
    /\ UNCHANGED <<requests, asset_cache, encoding, player>>

\* Promise.all settles; generateSceneAssets returns the scene with both
\* results and handleLoadScene runs setScenes.
SceneAssetsSettle ==
    /\ \E load \in Awaiting :
       \E imageUrl \in ImageResults,
          audioUrl \in AudioResults(load.scene, app.isMasterpiece) :
          app' = [app EXCEPT
              !.scenes = AssignScene(@, load.index,
                             WithAssets(load.scene, imageUrl, audioUrl)),
              !.loads = @ \ {load},
              !.fetches = { f \in @ : f.call # load.call }]
    /\ UNCHANGED <<requests, asset_cache, encoding, player>>

\* A story structure was woven in draft or in masterpiece mode and the App
\* is playing it.
InitAssets ==
    /\ requests = [r \in Req |-> NewRequest]
    /\ asset_cache = <<>>
    /\ encoding = IdleEncoding
    /\ \E isMasterpiece \in BOOLEAN :
          app = [InitialApp EXCEPT !.state = "playing",
                                   !.scenes = StoryStructure,
                                   !.isMasterpiece = isMasterpiece]
    /\ player = Unmounted

NextAssets ==
    \/ LoadSceneAssets
    \/ SceneAssetsSettle

SpecAssets == InitAssets /\ [][NextAssets]_vars

TypeOK ==
    /\ \A r \in Req :
        /\ requests[r].pc \in {"new", "awaiting", "done", "unanswered"}
        /\ requests[r].status \in {0, 200, 400, 404, 500}
    /\ \A i \in DOMAIN asset_cache : asset_cache[i].id = i

----------------------------------------------------------------------------
(* Properties.                                                             *)

\* The identity string of a request: the image prompt, or
\* "<audioPrompt>:<text>".
Identity(req) ==
    IF req.kind = "image" THEN TemplateStr(req.body.imagePrompt)
    ELSE TemplateStr(req.body.audioPrompt) \o <<":">> \o TemplateStr(req.body.text)

\* The request passed validation and computed its fingerprint.
Fingerprinted(req) == req.pc # "new" /\ req.hash # ""

\* The rows of the cache stored under a key.
RowsOf(type, hash) ==
    { i \in DOMAIN asset_cache :
        asset_cache[i].type = type /\ asset_cache[i].prompt_hash = hash }

\* The reference a request computes from the response it received.
FreshReference(req) ==
    IF req.kind = "image"
    THEN ImageUrl(The(FirstInlinePart(FirstCandidateParts(req.response))))
    ELSE FinalAudio(The(FirstPartInline(req.response)).mimeType,
                    The(FirstPartInline(req.response)).data)

\* C1: in every reachable state the asset cache holds at most one row per
\* (kind, fingerprint) pair, whatever image and audio requests interleaved.
C1_OneRowPerKey ==
    \A i, j \in DOMAIN asset_cache :
        (/\ asset_cache[i].type = asset_cache[j].type
         /\ asset_cache[i].prompt_hash = asset_cache[j].prompt_hash) => i = j

\* Two requests attempted to store the same key; one row is there.
C1_Witness ==
    \E r1, r2 \in Req :
        /\ r1 # r2
        /\ requests[r1].kind = requests[r2].kind
        /\ requests[r1].hash = requests[r2].hash
        /\ requests[r1].write = "ok"
        /\ requests[r2].write = "conflict"
        /\ Cardinality(RowsOf(requests[r1].kind, requests[r1].hash)) = 1

\* C2: two concurrent first-time audio requests with identical text and
\* narration instruction (each given the same payload by the collaborator)
\* both complete successfully with equal references, and the cache holds
\* exactly one row for the fingerprint.
C2_ConcurrentAudioBothSucceed ==
    \A r1, r2 \in Req :
        (/\ r1 # r2
         /\ requests[r1].kind = "audio" /\ requests[r2].kind = "audio"
         /\ requests[r1].body = requests[r2].body
         /\ requests[r1].missed /\ requests[r2].missed
         /\ requests[r1].pc = "done" /\ requests[r2].pc = "done"
         /\ requests[r1].settled = "fulfilled"
         /\ requests[r2].settled = "fulfilled"
         /\ requests[r1].response = requests[r2].response
         /\ FirstPartInline(requests[r1].response) # {})
        => /\ requests[r1].status = 200
           /\ requests[r2].status = 200
           /\ requests[r1].url = requests[r2].url
           /\ Cardinality(RowsOf("audio", requests[r1].hash)) = 1

\* C3: a request whose INSERT violates the uniqueness constraint still
\* answers 200 with the reference it computed; a duplicate-key insert never
\* produces an error response.
C3_ConflictAbsorbed ==
    \A r \in Req :
        requests[r].write = "conflict"
        => /\ requests[r].status = 200
           /\ requests[r].url = {FreshReference(requests[r])}

\* C4: once a request has completed successfully on a cache miss, every
\* later request of the same kind with the same identity string is answered
\* with exactly the stored reference and never invokes the collaborator.
C4_LaterRequestsHit ==
    \A r1, r2 \in Req :
        (/\ requests[r1].write = "ok"
         /\ requests[r1].status = 200
         /\ r1 \in requests[r2].doneBefore
         /\ Fingerprinted(requests[r2])
         /\ requests[r2].kind = requests[r1].kind
         /\ Identity(requests[r2]) = Identity(requests[r1]))
        => /\ requests[r2].pc = "done"
           /\ requests[r2].status = 200
           /\ requests[r2].url = requests[r1].url
           /\ \A i \in RowsOf(requests[r1].kind, requests[r1].hash) :
                requests[r2].url = {asset_cache[i].url}
           /\ RowsOf(requests[r1].kind, requests[r1].hash) # {}
           /\ requests[r2].calls = 0

C4_Witness ==
    \E r1, r2 \in Req :
        /\ requests[r1].write = "ok"
        /\ r1 \in requests[r2].doneBefore
        /\ requests[r2].kind = requests[r1].kind
        /\ Identity(requests[r2]) = Identity(requests[r1])
        /\ requests[r2].status = 200
        /\ requests[r2].calls = 0

\* No usable inline payload, by the extraction policy of each path: image,
\* no part of the first candidate carries inline data; audio, the first part
\* of the first candidate carries none.
NoUsablePayload(kind, response) ==
    IF response = <<>> THEN TRUE
    ELSE IF kind = "image"
    THEN \A i \in DOMAIN response[1] : response[1][i].inlineData = {}
    ELSE IF response[1] = <<>> THEN TRUE
    ELSE response[1][1].inlineData = {}

\* C5: a request whose collaborator response carries no usable inline
\* payload ends with 404, and that step leaves the asset cache unchanged.
C5_NoPayloadIs404 ==
    [][\A r \in Req :
        (/\ requests[r].pc = "awaiting"
         /\ requests'[r].settled = "fulfilled"
         /\ NoUsablePayload(requests'[r].kind, requests'[r].response))
        => /\ requests'[r].pc = "done"
           /\ requests'[r].status = 404
           /\ requests'[r].url = {}
           /\ requests'[r].write = "none"
           /\ asset_cache' = asset_cache]_vars

\* An image request got a response without candidates while the cache held
\* a row, and an audio request got a first part without inline data.
C5_Witness ==
    /\ asset_cache # <<>>
    /\ \E r \in Req :
        /\ requests[r].settled = "fulfilled"
        /\ NoUsablePayload(requests[r].kind, requests[r].response)
        /\ requests[r].status = 404

\* r2 arrived after r1 was answered, with r1's kind and identity string.
LaterIdentical(r1, r2) ==
    /\ r1 \in requests[r2].doneBefore
    /\ Fingerprinted(requests[r2])
    /\ requests[r2].kind = requests[r1].kind
    /\ Identity(requests[r2]) = Identity(requests[r1])

\* Some request answered before r arrived had stored r's key.
StoredBefore(r) ==
    \E q \in requests[r].doneBefore :
        /\ requests[q].write = "ok"
        /\ requests[q].kind = requests[r].kind
        /\ Identity(requests[q]) = Identity(requests[r])

\* C6 as stated: a request whose external call fails ends with 500 after
\* exactly one external call and no cache write, and every later identical
\* request misses the cache and invokes the collaborator again.
C6_FailureThenLaterMiss ==
    \A r \in Req :
        requests[r].settled = "rejected"
        => /\ requests[r].status = 500
           /\ requests[r].calls = 1
           /\ requests[r].write = "none"
           /\ \A r2 \in Req :
                LaterIdentical(r, r2)
                => requests[r2].missed /\ requests[r2].calls = 1

\* C6, amended: a request whose external call fails ends with 500 after
\* exactly one external call, the failing step leaves the cache unchanged,
\* and a later identical request misses the cache and invokes the
\* collaborator again unless another request had stored that key before it
\* arrived.
C6_FailureNotCached ==
    [][/\ \A r \in Req :
            (requests[r].pc = "awaiting" /\ requests'[r].settled = "rejected")
            => /\ asset_cache' = asset_cache
               /\ requests'[r].pc = "done"
       /\ (\A r \in Req :
            requests[r].settled = "rejected"
            => /\ requests[r].status = 500
               /\ requests[r].calls = 1
               /\ requests[r].write = "none"
               /\ \A r2 \in Req :
                    (LaterIdentical(r, r2) /\ ~StoredBefore(r2))
                    => requests[r2].missed /\ requests[r2].calls = 1)'
      ]_vars

\* A request failed and a later identical one missed and called again.
C6_Witness ==
    \E r, r2 \in Req :
        /\ requests[r].settled = "rejected"
        /\ requests[r].status = 500
        /\ LaterIdentical(r, r2)
        /\ requests[r2].missed
        /\ requests[r2].calls = 1

\* A required field is absent from the request body.
MissingField(kind, body) ==
    IF kind = "image" THEN body.imagePrompt = {}
    ELSE body.text = {} \/ body.audioPrompt = {}

\* C7: a request missing a required field is answered 400 before any
\* fingerprint, cache lookup, external call or cache write; the cache and
\* every external-call count are unchanged by it.
C7_ValidationFirst ==
    [][\A r \in Req :
        (/\ requests[r].pc = "new"
         /\ requests'[r].pc # "new"
         /\ MissingField(requests'[r].kind, requests'[r].body))
        => /\ requests'[r].pc = "done"
           /\ requests'[r].status = 400
           /\ requests'[r].hash = ""
           /\ ~requests'[r].missed
           /\ requests'[r].write = "none"
           /\ asset_cache' = asset_cache
           /\ \A q \in Req : requests'[q].calls = requests[q].calls]_vars

\* An image and an audio request without their field were rejected while
\* the cache held a row.
C7_Witness ==
    /\ asset_cache # <<>>
    /\ \E r \in Req :
        /\ requests[r].pc = "done"
        /\ MissingField(requests[r].kind, requests[r].body)
        /\ requests[r].status = 400

\* C8: check-then-populate is not serialized.  A request observes a miss
\* exactly when no answered request had stored its key before it arrived,
\* whatever requests for that key are in flight; every miss invokes the
\* collaborator once and every usable payload is followed by a cache write
\* attempt.
C8_MissesNotSerialized ==
    \A r \in Req :
        Fingerprinted(requests[r])
        => /\ requests[r].missed <=> ~StoredBefore(r)
           /\ requests[r].missed => requests[r].calls = 1
           /\ (/\ requests[r].settled = "fulfilled"
               /\ ~NoUsablePayload(requests[r].kind, requests[r].response))
              => requests[r].write \in {"ok", "conflict"}

\* Two requests for one never-seen key both missed, both called the
\* collaborator and both attempted the write.
C8_Witness ==
    \E r1, r2 \in Req :
        /\ r1 # r2
        /\ requests[r1].kind = requests[r2].kind
        /\ Identity(requests[r1]) = Identity(requests[r2])
        /\ requests[r1].missed /\ requests[r2].missed
        /\ requests[r1].calls = 1 /\ requests[r2].calls = 1
        /\ requests[r1].write \in {"ok", "conflict"}
        /\ requests[r2].write \in {"ok", "conflict"}

\* C9: rows are never deleted, evicted or overwritten: a row of the cache
\* is there, with its kind, fingerprint and reference, after every step.
C9_RowsRetained ==
    [][\A i \in DOMAIN asset_cache :
        \E j \in DOMAIN asset_cache' :
            /\ asset_cache'[j].type = asset_cache[i].type
            /\ asset_cache'[j].prompt_hash = asset_cache[i].prompt_hash
            /\ asset_cache'[j].url = asset_cache[i].url]_vars

\* A row survived a conflicting and a failing request.
C9_Witness ==
    \E r1, r2, r3 \in Req :
        /\ requests[r1].write = "ok"
        /\ requests[r2].write = "conflict"
        /\ requests[r3].settled = "rejected"
        /\ r1 \in requests[r3].doneBefore
        /\ RowsOf(requests[r1].kind, requests[r1].hash) # {}

\* The bytes of the WAV file of a data:audio/wav;base64 reference.
WavBytesOf(url) ==
    Base64Decode(SubSeq(url, Len(AudioWavPrefix) + 1, Len(url)))

\* The little-endian u32 at a 0-based offset.
U32At(bytes, offset) ==
    bytes[offset + 1] + 256 * bytes[offset + 2]
    + 65536 * bytes[offset + 3] + 16777216 * bytes[offset + 4]

\* C10: the step in which an audio request stores a reference stores and
\* returns the WAV encoder's output at sample rate 24000 when the MIME type
\* of the payload contains "pcm", and "data:<mime>;base64,<payload>" for
\* every other MIME type; the cached reference is the returned one.
C10_AudioReference ==
    [][\A r \in Req :
        (/\ requests[r].kind = "audio"
         /\ requests[r].write = "none"
         /\ requests'[r].write = "ok")
        => LET inline == The(requests'[r].response[1][1].inlineData)
               url == The(requests'[r].url)
               row == asset_cache'[Len(asset_cache')]
           IN  /\ requests'[r].status = 200
               /\ IF Includes(inline.mimeType, <<"p","c","m">>)
                  THEN /\ url = pcmToWavDataUri(inline.data, NumOf(24000))
                       /\ SubSeq(url, 1, Len(AudioWavPrefix)) = AudioWavPrefix
                       /\ U32At(WavBytesOf(url), 24) = 24000
                       /\ SubSeq(WavBytesOf(url), 45, Len(WavBytesOf(url)))
                            = Base64Decode(inline.data)
                  ELSE url = <<"d","a","t","a",":">> \o inline.mimeType
                               \o <<";","b","a","s","e","6","4",",">>
                               \o inline.data
               /\ Len(asset_cache') = Len(asset_cache) + 1
               /\ row.type = "audio"
               /\ row.prompt_hash = requests'[r].hash
               /\ row.url = url]_vars

\* A PCM payload was converted and a non-PCM payload passed through.
C10_Witness ==
    \E r1, r2 \in Req :
        /\ requests[r1].kind = "audio" /\ requests[r1].write = "ok"
        /\ requests[r2].kind = "audio" /\ requests[r2].write = "ok"
        /\ Includes(The(requests[r1].response[1][1].inlineData).mimeType,
                    <<"p","c","m">>)
        /\ ~Includes(The(requests[r2].response[1][1].inlineData).mimeType,
                     <<"p","c","m">>)

\* C11: two fingerprinted requests of the same kind whose identity strings
\* differ have different fingerprints and no cache row in common; each misses
\* exactly when no answered request with its own identity string had stored a
\* row before it arrived, each miss makes one external call, a row it writes
\* is stored under its own key, and an INSERT of one is never refused because
\* of the other.
C11_DistinctIdentitiesSeparate ==
    \A r1, r2 \in Req :
        (/\ r1 # r2
         /\ Fingerprinted(requests[r1]) /\ Fingerprinted(requests[r2])
         /\ requests[r1].kind = requests[r2].kind
         /\ Identity(requests[r1]) # Identity(requests[r2]))
        => /\ requests[r1].hash # requests[r2].hash
           /\ RowsOf(requests[r1].kind, requests[r1].hash)
                \cap RowsOf(requests[r2].kind, requests[r2].hash) = {}
           /\ requests[r2].missed <=> ~StoredBefore(r2)
           /\ requests[r2].missed => requests[r2].calls = 1
           /\ requests[r2].write = "ok"
                => \E i \in RowsOf(requests[r2].kind, requests[r2].hash) :
                       asset_cache[i].url = The(requests[r2].url)
           /\ requests[r2].write = "conflict"
                => \E q \in Req \ {r1, r2} :
                       /\ requests[q].write = "ok"
                       /\ requests[q].hash = requests[r2].hash

\* Two image requests whose prompts differ only in case, and two whose
\* prompts differ only in a trailing blank, the second arriving after the
\* first was stored: each missed, called the collaborator once and stored its
\* own row.
C11_Witness ==
    \E r1, r2 \in Req :
        /\ requests[r1].kind = "image" /\ requests[r2].kind = "image"
        /\ requests[r1].body.imagePrompt = {<<"a">>}
        /\ requests[r2].body.imagePrompt \in {{<<"A">>}, {<<"a", " ">>}}
        /\ r1 \in requests[r2].doneBefore
        /\ requests[r1].write = "ok" /\ requests[r2].write = "ok"
        /\ requests[r1].calls = 1 /\ requests[r2].calls = 1
        /\ Len(asset_cache) = 2

\* The little-endian u32 at a 0-based offset, as a number of two 16-bit limbs.
NumAt(bytes, offset) ==
    [lo |-> bytes[offset + 1] + 256 * bytes[offset + 2],
     hi |-> bytes[offset + 3] + 256 * bytes[offset + 4]]

\* The little-endian u16 at a 0-based offset.
U16At(bytes, offset) == bytes[offset + 1] + 256 * bytes[offset + 2]

\* The character codes of the bytes at a 0-based offset.
TagAt(bytes, offset) == SubSeq(bytes, offset + 1, offset + 4)

\* C12: for every PCM byte sequence and every u32 sample rate given to the
\* encoder, the little-endian u32 at offset 24 of its output is the sample
\* rate, the one at offset 40 is the number of PCM bytes, and the bytes from
\* offset 44 on are the PCM bytes, unchanged and in order.
C12_WavRoundTrip ==
    encoding.pc = "returned"
    => LET bytes == WavBytesOf(encoding.result)
       IN  /\ SubSeq(encoding.result, 1, Len(AudioWavPrefix)) = AudioWavPrefix
           /\ Len(bytes) = 44 + Len(encoding.pcmBytes)
           /\ NumAt(bytes, 24) = encoding.sampleRate
           /\ NumAt(bytes, 40) = NumOf(Len(encoding.pcmBytes))
           /\ SubSeq(bytes, 45, Len(bytes)) = encoding.pcmBytes

\* The encoder returned for a two-byte buffer at sample rate 2^31.
C12_Witness ==
    /\ encoding.pc = "returned"
    /\ encoding.sampleRate = [lo |-> 0, hi |-> 32768]
    /\ encoding.pcmBytes = <<165, 255>>

\* C13: the first 44 bytes of the encoder's output are the canonical header
\* for every input: "RIFF" at 0, "WAVE" at 8, "fmt " at 12, Subchunk1Size 16
\* at 16, AudioFormat 1 at 20, NumChannels 1 at 22, BlockAlign 2 at 32,
\* BitsPerSample 16 at 34, "data" at 36, the numeric fields little-endian;
\* the size and rate fields between them hold their own values (no field is
\* overwritten by another), and the header does not depend on what the
\* buffer held before the writes (no byte is left unwritten).
C13_CanonicalHeader ==
    encoding.pc = "returned"
    => LET bytes == WavBytesOf(encoding.result)
           len == Len(encoding.pcmBytes)
           rate == encoding.sampleRate
           twice == NumAdd(rate, rate)
       IN  /\ Len(bytes) >= 44
           /\ TagAt(bytes, 0) = <<82, 73, 70, 70>>
           /\ NumAt(bytes, 4) = NumOf(36 + len)
           /\ TagAt(bytes, 8) = <<87, 65, 86, 69>>
           /\ TagAt(bytes, 12) = <<102, 109, 116, 32>>
           /\ SubSeq(bytes, 17, 20) = <<16, 0, 0, 0>>
           /\ SubSeq(bytes, 21, 22) = <<1, 0>>
           /\ SubSeq(bytes, 23, 24) = <<1, 0>>
           /\ NumAt(bytes, 24) = rate
           /\ NumAt(bytes, 28) = [lo |-> twice.lo, hi |-> twice.hi % 65536]
           /\ SubSeq(bytes, 33, 34) = <<2, 0>>
           /\ SubSeq(bytes, 35, 36) = <<16, 0>>
           /\ U16At(bytes, 32) = 2 /\ U16At(bytes, 34) = 16
           /\ TagAt(bytes, 36) = <<100, 97, 116, 97>>
           /\ NumAt(bytes, 40) = NumOf(len)
           /\ SubSeq(bytes, 1, 44)
                = WavHeaderFrom([i \in 1..44 |-> 255], len, rate)

\* The encoder returned for a non-empty buffer at sample rate 44100.
C13_Witness ==
    /\ encoding.pc = "returned"
    /\ encoding.sampleRate = NumOf(44100)
    /\ Len(encoding.pcmBytes) = 1

\* C14: the step in which an audio request receives an inline PCM payload of
\* zero bytes ends it with 200 and stores and returns the encoder's output at
\* sample rate 24000, a WAV file of exactly 44 bytes with ChunkSize 36 and
\* Subchunk2Size 0; the only other outcome of that step is the INSERT refused
\* for a fingerprint that is already stored, which does not depend on the
\* payload. The empty payload never gives 404.
C14_EmptyPcmResolved ==
    [][\A r \in Req :
        (/\ requests[r].kind = "audio"
         /\ requests[r].pc = "awaiting"
         /\ requests'[r].pc = "done"
         /\ requests'[r].response = << <<InlinePart(MimeL16, <<>>)>> >>)
        => IF UniqueViolation(asset_cache, requests[r].hash)
           THEN requests'[r].write = "conflict"
           ELSE LET url == The(requests'[r].url)
                    bytes == WavBytesOf(url)
                IN  /\ requests'[r].status = 200
                    /\ requests'[r].write = "ok"
                    /\ url = pcmToWavDataUri(<<>>, NumOf(24000))
                    /\ Len(bytes) = 44
                    /\ NumAt(bytes, 4) = NumOf(36)
                    /\ NumAt(bytes, 40) = NumOf(0)
                    /\ NumAt(bytes, 24) = NumOf(24000)
                    /\ asset_cache'[Len(asset_cache')].url = url
                    /\ Len(asset_cache') = Len(asset_cache) + 1]_vars

\* An audio request was answered 200 for a PCM payload of zero bytes and its
\* 44-byte reference is in the cache.
C14_Witness ==
    \E r \in Req :
        /\ requests[r].kind = "audio"
        /\ requests[r].response = << <<InlinePart(MimeL16, <<>>)>> >>
        /\ requests[r].status = 200
        /\ requests[r].write = "ok"
        /\ \E i \in DOMAIN asset_cache :
              /\ asset_cache[i].url = The(requests[r].url)
              /\ Len(WavBytesOf(asset_cache[i].url)) = 44

\* C16: in every step, for every request: an external call is made only by
\* the step in which the request arrives and finds no row under its key; the
\* cache changes only in the step in which a request's external call returned
\* with a usable payload, by one row appended under that request's key; a
\* request is answered 200 only by the step in which it arrives and finds a
\* row, or by the step that appends its own row; a rejected call and a
\* response without usable payload end the request with 500 or 404 and leave
\* the cache as it was; an answered request never changes again.
C16_OrchestratorPaths ==
    [][/\ \A r \in Req :
            LET old == requests[r]
                new == requests'[r]
            IN  /\ new.calls # old.calls
                    => /\ old.pc = "new" /\ new.pc = "awaiting"
                       /\ new.calls = 1 /\ new.missed
                       /\ Select(asset_cache, new.kind, new.hash) = {}
                /\ (new.status = 200 /\ old.status # 200)
                    => \/ /\ old.pc = "new" /\ new.calls = 0 /\ ~new.missed
                          /\ Select(asset_cache, new.kind, new.hash) # {}
                          /\ new.write = "none"
                       \/ /\ old.pc = "awaiting" /\ new.write = "ok"
                          /\ Len(asset_cache') = Len(asset_cache) + 1
                          /\ asset_cache'[Len(asset_cache')].prompt_hash = new.hash
                /\ (/\ old.pc = "awaiting" /\ new.pc = "done"
                    /\ \/ new.settled = "rejected"
                       \/ NoUsablePayload(new.kind, new.response))
                    => /\ new.status = IF new.settled = "rejected" THEN 500 ELSE 404
                       /\ new.write = "none"
                       /\ asset_cache' = asset_cache
                /\ old.pc = "done" => new = old
       /\ asset_cache' # asset_cache
            => \E r \in Req :
                  /\ requests[r].pc = "awaiting" /\ requests[r].missed
                  /\ requests'[r].pc = "done"
                  /\ requests'[r].settled = "fulfilled"
                  /\ ~NoUsablePayload(requests'[r].kind, requests'[r].response)
                  /\ requests'[r].write = "ok"
                  /\ asset_cache' = Append(asset_cache,
                                           asset_cache'[Len(asset_cache')])
                  /\ asset_cache'[Len(asset_cache')].type = requests'[r].kind
                  /\ asset_cache'[Len(asset_cache')].prompt_hash = requests'[r].hash]_vars

\* One request missed, made its call and stored its own row; a later one was
\* served from the cache without a call.
C16_Witness ==
    \E r1, r2 \in Req :
        /\ requests[r1].status = 200 /\ requests[r1].write = "ok"
        /\ requests[r1].missed /\ requests[r1].calls = 1
        /\ requests[r2].status = 200 /\ ~requests[r2].missed
        /\ requests[r2].calls = 0 /\ requests[r2].write = "none"
        /\ requests[r2].url = requests[r1].url

\* C17: the step in which a request is served from the cache leaves the asset
\* cache exactly as it was: no row is inserted and no row is changed.
C17_HitLeavesCache ==
    [][\A r \in Req :
        (/\ requests[r].pc = "new"
         /\ requests'[r].pc = "done"
         /\ requests'[r].status = 200)
        => /\ ~requests'[r].missed
           /\ requests'[r].url
                = { asset_cache[i].url :
                      i \in RowsOf(requests'[r].kind, requests'[r].hash) }
           /\ asset_cache' = asset_cache]_vars

\* An audio request was served from the cache, which held the row it read.
C17_Witness ==
    \E r \in Req :
        /\ requests[r].kind = "audio"
        /\ requests[r].status = 200
        /\ ~requests[r].missed
        /\ requests[r].write = "none"
        /\ Len(asset_cache) = 1

\* C18: the step in which an image request's external call returns uses the
\* data of the lowest-numbered part of the first candidate that has inline
\* data, whatever parts precede or follow it and whatever later candidates
\* hold: unless the INSERT is refused, the request is answered 200 with
\* "data:image/png;base64," followed by that data, which is the stored row;
\* when the first candidate has no part with inline data, or there is no
\* candidate, the request is answered 404 and the cache is left as it was.
C18_ImageFirstInlinePart ==
    [][\A r \in Req :
        (/\ requests[r].kind = "image"
         /\ requests[r].pc = "awaiting"
         /\ requests'[r].settled = "fulfilled")
        => LET response == requests'[r].response
               parts == IF response = <<>> THEN <<>> ELSE response[1]
               idx == { i \in DOMAIN parts : parts[i].inlineData # {} }
           IN  IF idx = {}
               THEN /\ requests'[r].status = 404
                    /\ requests'[r].write = "none"
                    /\ asset_cache' = asset_cache
               ELSE LET k == CHOOSE i \in idx : \A j \in idx : i <= j
                        url == <<"d","a","t","a",":","i","m","a","g","e","/",
                                 "p","n","g",";","b","a","s","e","6","4",",">>
                               \o The(parts[k].inlineData).data
                    IN  IF UniqueViolation(asset_cache, requests[r].hash)
                        THEN requests'[r].write = "conflict"
                        ELSE /\ requests'[r].status = 200
                             /\ requests'[r].url = {url}
                             /\ asset_cache'[Len(asset_cache')].url = url]_vars

\* One image request received a text part followed by an inline part and was
\* answered with the inline part's data; another received a first candidate
\* without inline data and a second one with inline data and was answered 404.
C18_Witness ==
    \E r1, r2 \in Req :
        /\ requests[r1].kind = "image" /\ requests[r2].kind = "image"
        /\ requests[r1].response = << <<TextPart, InlinePart(MimePng, Data0001)>> >>
        /\ requests[r1].status = 200
        /\ requests[r1].url = {ImagePngPrefix \o Data0001}
        /\ requests[r2].response
             = << <<TextPart>>, <<InlinePart(MimeL16, Data0001)>> >>
        /\ requests[r2].status = 404

\* C19: the step in which an audio request's external call returns examines
\* only the first part of the first candidate: when that part has inline data
\* the reference stored and returned is built from that part's MIME type and
\* data (unless the INSERT is refused); when it has none, or there is no
\* candidate or no part, the request is answered 404 and the cache is left
\* as it was, even when a later part or a later candidate has inline data.
C19_AudioFirstPartOnly ==
    [][\A r \in Req :
        (/\ requests[r].kind = "audio"
         /\ requests[r].pc = "awaiting"
         /\ requests'[r].settled = "fulfilled")
        => LET response == requests'[r].response
               first == IF response = <<>> THEN {}
                        ELSE IF response[1] = <<>> THEN {}
                        ELSE response[1][1].inlineData
           IN  IF first = {}
               THEN /\ requests'[r].status = 404
                    /\ requests'[r].url = {}
                    /\ requests'[r].write = "none"
                    /\ asset_cache' = asset_cache
               ELSE IF UniqueViolation(asset_cache, requests[r].hash)
                    THEN requests'[r].write = "conflict"
                    ELSE /\ requests'[r].status = 200
                         /\ requests'[r].url
                              = {FinalAudio(The(first).mimeType, The(first).data)}
                         /\ asset_cache'[Len(asset_cache')].url
                              = The(requests'[r].url)]_vars

\* One audio request whose first part was text and whose second part had
\* inline data was answered 404, and so was one whose second candidate had
\* inline audio.
C19_Witness ==
    \E r1, r2 \in Req :
        /\ requests[r1].kind = "audio" /\ requests[r2].kind = "audio"
        /\ requests[r1].response = << <<TextPart, InlinePart(MimePng, Data0001)>> >>
        /\ requests[r1].status = 404 /\ requests[r1].write = "none"
        /\ requests[r2].response
             = << <<TextPart>>, <<InlinePart(MimeL16, Data0001)>> >>
        /\ requests[r2].status = 404 /\ requests[r2].write = "none"
        /\ asset_cache = <<>>

\* C20: the fingerprint of an audio request is the digest of its narration
\* instruction, one colon and its scene text; two audio requests that differ
\* in the narration instruction alone or in the scene text alone have
\* different fingerprints and different rows, and such a request is served
\* from the cache only when an answered request with both components equal
\* to its own had stored a row before it arrived.
C20_AudioKeyComponents ==
    \A r1, r2 \in Req :
        (/\ r1 # r2
         /\ requests[r1].kind = "audio" /\ requests[r2].kind = "audio"
         /\ Fingerprinted(requests[r1]) /\ Fingerprinted(requests[r2])
         /\ (requests[r1].body.audioPrompt # requests[r2].body.audioPrompt)
              # (requests[r1].body.text # requests[r2].body.text))
        => /\ requests[r2].hash
                = md5hex(The(requests[r2].body.audioPrompt) \o <<":">>
                           \o The(requests[r2].body.text))
           /\ requests[r1].hash # requests[r2].hash
           /\ \A i \in RowsOf("audio", requests[r1].hash) :
                 asset_cache[i].prompt_hash # requests[r2].hash
           /\ ~requests[r2].missed
                => \E q \in requests[r2].doneBefore \ {r1} :
                      /\ requests[q].kind = "audio"
                      /\ requests[q].write = "ok"
                      /\ requests[q].body.audioPrompt = requests[r2].body.audioPrompt
                      /\ requests[q].body.text = requests[r2].body.text

\* An audio request was stored; a later one with the same narration
\* instruction and another scene text, or the same scene text and another
\* narration instruction, missed the cache and stored a second row.
C20_Witness ==
    \E r1, r2 \in Req :
        /\ requests[r1].kind = "audio" /\ requests[r2].kind = "audio"
        /\ requests[r1].body = AudioBody({<<"b">>}, {<<"a">>})
        /\ requests[r2].body \in { AudioBody({<<"c">>}, {<<"a">>}),
                                   AudioBody({<<"b">>}, {<<"A">>}) }
        /\ r1 \in requests[r2].doneBefore
        /\ requests[r1].write = "ok"
        /\ requests[r2].missed /\ requests[r2].calls = 1
        /\ requests[r2].write = "ok"
        /\ Len(asset_cache) = 2

\* C21: the reference an image request stores and returns is "data:", the
\* MIME type declared by the inline part it extracted, ";base64," and that
\* part's data unmodified.
C21_ImageMimeDeclared ==
    \A r \in Req :
        (requests[r].kind = "image" /\ requests[r].write = "ok")
        => LET parts == requests[r].response[1]
               idx == { i \in DOMAIN parts : parts[i].inlineData # {} }
               inline == The(parts[CHOOSE i \in idx : \A j \in idx : i <= j].inlineData)
               url == <<"d","a","t","a",":">> \o inline.mimeType
                        \o <<";","b","a","s","e","6","4",",">> \o inline.data
           IN  /\ requests[r].url = {url}
               /\ \E i \in RowsOf("image", requests[r].hash) :
                     asset_cache[i].url = url

\* The number 2 * n for a number n of two 16-bit limbs, not reduced.
Twice(n) ==
    [lo |-> (2 * n.lo) % 65536, hi |-> 2 * n.hi + ((2 * n.lo) \div 65536)]

\* C22 as stated: for every input length and every u32 sample rate the
\* encoder's output has ChunkSize = 36 + dataLen at offset 4, Subchunk2Size =
\* dataLen at offset 40, ByteRate = SampleRate * 2 at offset 28, and total
\* length 44 + dataLen = ChunkSize + 8, the written values being the true
\* ones and not values reduced modulo 2^32.
C22_SizeFieldsTrue ==
    encoding.pc = "returned"
    => LET bytes == WavBytesOf(encoding.result)
           len == Len(encoding.pcmBytes)
       IN  /\ NumAt(bytes, 4) = [lo |-> 36 + len, hi |-> 0]
           /\ NumAt(bytes, 40) = [lo |-> len, hi |-> 0]
           /\ NumAt(bytes, 28) = Twice(encoding.sampleRate)
           /\ Len(bytes) = 44 + len
           /\ Len(bytes) = NumAt(bytes, 4).lo + 8

\* C22 amended: the size fields and the total length are the true values for
\* every input length; ByteRate is the true SampleRate * 2 for every sample
\* rate below 2^31, and for a sample rate from 2^31 to 2^32 - 1, whose double
\* does not fit the four-byte field, it is SampleRate * 2 - 2^32.
C22_SizeFieldsConsistent ==
    encoding.pc = "returned"
    => LET bytes == WavBytesOf(encoding.result)
           len == Len(encoding.pcmBytes)
           twice == Twice(encoding.sampleRate)
       IN  /\ NumAt(bytes, 4) = [lo |-> 36 + len, hi |-> 0]
           /\ NumAt(bytes, 40) = [lo |-> len, hi |-> 0]
           /\ Len(bytes) = 44 + len
           /\ Len(bytes) = NumAt(bytes, 4).lo + 8
           /\ NumAt(bytes, 28)
                = IF encoding.sampleRate.hi < 32768 THEN twice
                  ELSE [lo |-> twice.lo, hi |-> twice.hi - 65536]

\* The encoder returned for sample rate 2^31 - 1, the largest whose double
\* fits, and a non-empty buffer.
C22_Witness ==
    /\ encoding.pc = "returned"
    /\ encoding.sampleRate = [lo |-> 65535, hi |-> 32767]
    /\ Len(encoding.pcmBytes) = 2
    /\ NumAt(WavBytesOf(encoding.result), 28) = [lo |-> 65534, hi |-> 65535]

\* C23: two audio requests with different (narration instruction, scene
\* text) pairs whose colon-joined strings coincide have the same fingerprint;
\* once one of them has stored its reference, the other, arriving later, is
\* answered 200 with that reference, the stored row's, without an external
\* call and without a write.
C23_ColonAmbiguity ==
    \A r1, r2 \in Req :
        (/\ requests[r1].kind = "audio" /\ requests[r2].kind = "audio"
         /\ Fingerprinted(requests[r1]) /\ Fingerprinted(requests[r2])
         /\ requests[r1].body # requests[r2].body
         /\ The(requests[r1].body.audioPrompt) \o <<":">> \o The(requests[r1].body.text)
              = The(requests[r2].body.audioPrompt) \o <<":">> \o The(requests[r2].body.text))
        => /\ requests[r1].hash = requests[r2].hash
           /\ (requests[r1].write = "ok" /\ r1 \in requests[r2].doneBefore)
                => /\ requests[r2].pc = "done"
                   /\ requests[r2].status = 200
                   /\ ~requests[r2].missed
                   /\ requests[r2].calls = 0
                   /\ requests[r2].write = "none"
                   /\ requests[r2].url = requests[r1].url
                   /\ \A i \in RowsOf("audio", requests[r2].hash) :
                         requests[r2].url = {asset_cache[i].url}

\* The audio request ("a:b", "c") was stored and the later request
\* ("a", "b:c") was answered with its reference without a call.
C23_Witness ==
    \E r1, r2 \in Req :
        /\ requests[r1].body = AudioBody({<<"c">>}, {<<"a",":","b">>})
        /\ requests[r2].body = AudioBody({<<"b",":","c">>}, {<<"a">>})
        /\ requests[r1].kind = "audio" /\ requests[r2].kind = "audio"
        /\ requests[r1].write = "ok"
        /\ r1 \in requests[r2].doneBefore
        /\ requests[r2].status = 200 /\ requests[r2].calls = 0
        /\ requests[r2].url = requests[r1].url

\* C25: a request whose identity string is that of a request of the other
\* kind that was stored before it arrived misses the cache and makes its own
\* external call, and when that call returns a usable payload it is answered
\* 200 with the reference built from its own payload and that reference is
\* stored under its own kind and fingerprint.
C25_KindIsolation ==
    \A r1, r2 \in Req :
        (/\ Fingerprinted(requests[r1]) /\ Fingerprinted(requests[r2])
         /\ requests[r1].kind # requests[r2].kind
         /\ Identity(requests[r1]) = Identity(requests[r2])
         /\ requests[r1].write = "ok"
         /\ r1 \in requests[r2].doneBefore
         /\ ~StoredBefore(r2))
        => /\ requests[r2].missed
           /\ requests[r2].calls = 1
           /\ (/\ requests[r2].pc = "done"
               /\ requests[r2].settled = "fulfilled"
               /\ ~NoUsablePayload(requests[r2].kind, requests[r2].response))
                => /\ requests[r2].status = 200
                   /\ requests[r2].write = "ok"
                   /\ requests[r2].url = {FreshReference(requests[r2])}
                   /\ \E i \in RowsOf(requests[r2].kind, requests[r2].hash) :
                         asset_cache[i].url = The(requests[r2].url)

\* C24: when every issued external call settles, every asset request that
\* was received is eventually answered with one of 400, 200, 404 and 500, and
\* an answered request is never answered again.
C24_ExactlyOneResponse ==
    /\ \A r \in Req :
          (requests[r].pc # "new")
            ~> (requests[r].pc = "done"
                /\ requests[r].status \in {400, 200, 404, 500})
    /\ [][\A r \in Req :
            requests[r].pc = "done" => requests'[r] = requests[r]]_vars

\* C26: called with the same base64 PCM text and the same sample rate, the
\* client's encoder returns, and returns exactly the data URI the server's
\* encoder returns: the same header, the same data bytes, the same text.
C26_EncodersAgree ==
    /\ encoding.clientPc # "threw"
    /\ (encoding.pc = "returned" /\ encoding.clientPc = "returned")
         => /\ encoding.clientResult = {encoding.result}
            /\ SubSeq(WavBytesOf(The(encoding.clientResult)), 1, 44)
                 = SubSeq(WavBytesOf(encoding.result), 1, 44)

\* Both encoders returned for an unpadded text of two bytes at sample rate
\* 2^32 - 1.
C26_Witness ==
    /\ encoding.pc = "returned" /\ encoding.clientPc = "returned"
    /\ encoding.pcmBytes = <<165, 255>>
    /\ encoding.base64Pcm = <<"p", "f", "8">>
    /\ encoding.sampleRate = [lo |-> 65535, hi |-> 65535]

\* The scene at index i of the list is the scene of position i of one story,
\* the same story for the whole list.
OneStoryInOrder(scenes) ==
    \A i \in DOMAIN scenes :
        /\ scenes[i] # EmptySlot
        /\ scenes[i].pos = i - 1
        /\ scenes[i].story = scenes[1].story

\* C27: in every step in which an asset load completes, the result is
\* written only into the scene the load was requested for: the list of the
\* step's start still holds that scene of that story at the load's index, and
\* nothing else of the list changes; so a list replaced by another story
\* keeps only its own scenes and a cleared list stays empty.
C27_LoadsStayInStory ==
    [][\A load \in app.loads \ app'.loads :
          /\ load.index + 1 \in DOMAIN app.scenes
          /\ app.scenes[load.index + 1].story = load.scene.story
          /\ app.scenes[load.index + 1].pos = load.scene.pos
          /\ OneStoryInOrder(app.scenes) => OneStoryInOrder(app'.scenes)
          /\ Len(app'.scenes) = Len(app.scenes)]_vars

\* C28: whenever the app is in state 'playing' the scene list is non-empty.
C28_PlayingHasScenes ==
    app.state = "playing" => Len(app.scenes) > 0

\* C29: in every reachable state the scene index of the rendered story
\* player is an index of its scene list, 0..scenes.length-1, whatever
\* next, previous and audio-ended events came before.
C29_IndexInRange ==
    player.mounted =>
        /\ player.currentSceneIndex >= 0
        /\ player.currentSceneIndex <= Len(player.scenes) - 1

\* The effect run that started a load, or that spoke an utterance, is no
\* longer the mounted one.
SupersededRun(run) == ~(run = player.run /\ player.isMounted)

\* C30: in every step in which a scene load of a superseded effect run
\* completes, and in every step in which the utterance of a superseded run
\* ends, nothing starts or stops playing and no scene advance or completion
\* is queued.
C30_SupersededRunsSilent ==
    [][/\ \A load \in player.loads :
             (/\ load.then = "pending"
              /\ load \notin player'.loads
              /\ SupersededRun(load.run))
             => /\ player'.audio = player.audio
                /\ player'.speech = player.speech
                /\ player'.pending = player.pending
                /\ player'.currentSceneIndex = player.currentSceneIndex
                /\ app'.state = app.state
       /\ (/\ player.speech # 0
           /\ SupersededRun(player.speech)
           /\ player'.speech = 0
           /\ player'.run = player.run
           /\ player'.loads = player.loads)
          => /\ player'.pending = player.pending
             /\ player'.currentSceneIndex = player.currentSceneIndex
             /\ app'.state = app.state]_vars

\* A load of a superseded run completed without playing while the player
\* is mounted and the latest run speaks its scene.
C30_Witness ==
    /\ player.mounted
    /\ player.speech = player.run /\ player.isMounted
    /\ \E load \in player.loads :
          load.then = "skipped" /\ load.run < player.run

\* C31: in every step, handleLoadScene called for a scene that has both
\* imageUrl and audioUrl returns without a request; a call for any other
\* scene requests the image with the scene's image prompt and, in
\* masterpiece mode only, the audio with the scene's text and audio prompt;
\* in draft mode no call to the audio endpoint is ever pending; and the scene
\* written when the assets settle has the text, image prompt and audio
\* prompt of the scene asked for, with audioUrl "tts://" followed by the
\* text in draft mode.
C31_AssetsByCompletenessAndMode ==
    [][/\ \A load \in app'.loads \ app.loads :
             LET image == [op |-> "image", call |-> load.call,
                           imagePrompt |-> load.scene.imagePrompt]
                 audio == [op |-> "audio", call |-> load.call,
                           text |-> load.scene.text,
                           audioPrompt |-> load.scene.audioPrompt]
                 complete ==
                     /\ load.scene.imageUrl \notin {{}, {<<>>}}
                     /\ load.scene.audioUrl \notin {{}, {<<>>}}
             IN  /\ load.scene = app.scenes[load.index + 1]
                 /\ complete =>
                        app'.fetches = app.fetches /\ load.pc = "returned"
                 /\ ~complete =>
                        /\ load.pc = "awaiting"
                        /\ app'.fetches \ app.fetches =
                              IF app.isMasterpiece THEN {image, audio}
                              ELSE {image}
       /\ ~app'.isMasterpiece => \A f \in app'.fetches : f.op # "audio"
       /\ \A load \in app.loads \ app'.loads :
             LET written == app'.scenes[load.index + 1]
             IN  /\ written.text = load.scene.text
                 /\ written.imagePrompt = load.scene.imagePrompt
                 /\ written.audioPrompt = load.scene.audioPrompt
                 /\ ~app.isMasterpiece =>
                        written.audioUrl =
                            {<<"t", "t", "s", ":", "/", "/">>
                                 \o load.scene.text}]_vars

\* In draft mode a scene received its image and the browser voice, and a
\* later handleLoadScene for it returned at once, while the other scene,
\* whose image failed, is asked for again.
C31_Witness ==
    /\ ~app.isMasterpiece
    /\ \E load \in app.loads :
          /\ load.pc = "returned"
          /\ load.scene.audioUrl = {<<"t", "t", "s", ":", "/", "/", "a">>}
          /\ load.scene.imageUrl # {}
    /\ \E load \in app.loads :
          /\ load.pc = "awaiting"
          /\ load.scene.audioUrl # {} /\ load.scene.imageUrl = {}
    /\ \E f \in app.fetches : f.op = "image"

====
